---- MODULE Spec2Model ----
(***************************************************************************)
(* SecureTransfer: the peer handshake state machine (useWebRTC hook, the   *)
(* rate limiter and session registry of utils/security, the approval       *)
(* provider of ReceiverView / ConnectionApprovalModal) and the chunked     *)
(* batch transfer engine (useFileTransfer hook).                           *)
(*                                                                         *)
(* Time is Date.now() in milliseconds.  One host hook instance and one     *)
(* remote endpoint on one data connection are modelled.  JavaScript runs   *)
(* each callback to completion, so every action is one callback: a message *)
(* handler up to its first await, the continuation of an await, a timer    *)
(* callback or a user-interface event.  A React state update is modelled   *)
(* together with the render and the effects it triggers.                   *)
(***************************************************************************)
EXTENDS Integers, Sequences, FiniteSets, TLC

NULL == "null"

(* ------------------------------------------------------------------ *)
(* Program constants (types/index.ts, utils/security.ts)               *)
(* ------------------------------------------------------------------ *)
MAX_PIN_ATTEMPTS == 3
MAX_CONNECTION_ATTEMPTS == 3
CONNECTION_ATTEMPT_WINDOW_MS == 300000
BLOCK_DURATION_MS == 300000
APPROVAL_TIMEOUT_MS == 30000
ROOM_CODE_EXPIRY_MS == 3600000
COUNTDOWN_INTERVAL_MS == 1000
MAX_RETRIES == 3
RETRY_DELAY == 2000
MAX_RECONNECT_ATTEMPTS == 5
CHUNK_SIZE == 65536

(* ------------------------------------------------------------------ *)
(* Bounds of the model                                                 *)
(* ------------------------------------------------------------------ *)
MaxRequests == 2
MaxPinAttempts == 3
MaxAdvances == 2
MaxRateRequests == 4
MaxRateAdvances == 2
MaxTransferMessages == 3
MaxChunks == 2
MaxPairAdvances == 2
MaxFiles == 2
MaxCorruptions == 1
MaxRemoteDisconnects == 2
MaxSessionAdvances == 3
MaxTyped == 4
MaxArrivals == 3
MaxCandidates == 6
MaxNameLength == 4
MaxSignalDrops == 6
MaxSpeedCalls == 7

ClientId == "client-1"
PeerIds == {ClientId, "client-2"}
Pins == {"1234", "0000"}
HostPin == "1234"
RoomCode == "AB3D-EF7H"
\* the room codes generateSecureRoomCode gives the retries of connectAsHost
HostRoomCodes == {RoomCode, "ZZZZ-9999"}

(* ------------------------------------------------------------------ *)
(* utils/security.ts                                                   *)
(* ------------------------------------------------------------------ *)
\* SHA-256 of the UTF-8 bytes of the PIN, as 64 lower-case hex digits.
hashPin(pin) ==
  CASE pin = "1234" -> "03ac674216f3e15c761ee1a5e255f067953623c8b388b4459e13f978d7c846f4"
    [] pin = "0000" -> "9af15b336e6a9619928537df30b2e6a2376569fcf9d7e773eccede65606529a0"

\* A string is the sequence of its characters.  The hook's fields hold the room
\* code as a text of CodeTexts; Chars and Text convert between the two.
LowerCase == <<"a", "b", "c", "d", "e", "f", "g", "h", "i", "j", "k", "l", "m",
               "n", "o", "p", "q", "r", "s", "t", "u", "v", "w", "x", "y", "z">>
UpperCase == <<"A", "B", "C", "D", "E", "F", "G", "H", "I", "J", "K", "L", "M",
               "N", "O", "P", "Q", "R", "S", "T", "U", "V", "W", "X", "Y", "Z">>

\* String.prototype.toUpperCase / toLowerCase, letter by letter
UpperOf ==
  [ch \in {LowerCase[k] : k \in 1 .. 26} |-> UpperCase[CHOOSE k \in 1 .. 26 : LowerCase[k] = ch]]
LowerOf ==
  [ch \in {UpperCase[k] : k \in 1 .. 26} |-> LowerCase[CHOOSE k \in 1 .. 26 : UpperCase[k] = ch]]
toUpperCase(str) ==
  [i \in 1 .. Len(str) |-> IF str[i] \in DOMAIN UpperOf THEN UpperOf[str[i]] ELSE str[i]]
toLowerCase(str) ==
  [i \in 1 .. Len(str) |-> IF str[i] \in DOMAIN LowerOf THEN LowerOf[str[i]] ELSE str[i]]

\* str.replace(/-/g, '')
removeDashes(str) == SelectSeq(str, LAMBDA ch : ch # "-")

\* str.slice(from), str.slice(from, to) with 0 <= from; a negative `to` counts
\* from the end
slice(str, from, to) ==
  LET end == IF to < 0 THEN (IF Len(str) + to < 0 THEN 0 ELSE Len(str) + to)
             ELSE IF to < Len(str) THEN to ELSE Len(str)
  IN SubSeq(str, from + 1, end)

ROOM_CODE_LENGTH == 8
ROOM_CODE_ALPHABET ==
  <<"A", "B", "C", "D", "E", "F", "G", "H", "J", "K", "M", "N", "P", "Q", "R", "S",
    "T", "U", "V", "W", "X", "Y", "Z", "2", "3", "4", "5", "6", "7", "8", "9">>

\* generateSecureRoomCode with `array` the bytes crypto.getRandomValues produced
generateSecureRoomCode(array) ==
  LET code == [i \in 1 .. Len(array) |->
                 ROOM_CODE_ALPHABET[(array[i] % Len(ROOM_CODE_ALPHABET)) + 1]]
  IN slice(code, 0, 4) \o <<"-">> \o slice(code, 4, Len(code))

isValidRoomCodeFormat(code) ==
  LET normalized == toUpperCase(removeDashes(code))
  IN IF Len(normalized) # ROOM_CODE_LENGTH THEN FALSE
     ELSE \A i \in 1 .. Len(normalized) :
            \E k \in 1 .. Len(ROOM_CODE_ALPHABET) : ROOM_CODE_ALPHABET[k] = normalized[i]

\* a normalizeRoomCode that strips the dashes and keeps the case
normalizeRoomCode_keepsCase(code) == removeDashes(code)

normalizeRoomCode(code) == toUpperCase(removeDashes(code))

formatRoomCode(code) ==
  LET normalized == normalizeRoomCode(code)
  IN IF Len(normalized) # ROOM_CODE_LENGTH THEN code
     ELSE slice(normalized, 0, 4) \o <<"-">> \o slice(normalized, 4, Len(normalized))

\* name.replace(/\.\./g, ''): the matches are taken from left to right, so of
\* a run of dots the pairs go, from its start, and the last dot of a run of odd
\* length stays
removeDotDot(str) ==
  LET Dot(i) == str[i] = "."
      runStart(i) == CHOOSE p \in 1 .. i :
                       /\ \A j \in p .. i : Dot(j)
                       /\ p = 1 \/ ~Dot(p - 1)
      runEnd(i) == CHOOSE q \in i .. Len(str) :
                     /\ \A j \in i .. q : Dot(j)
                     /\ q = Len(str) \/ ~Dot(q + 1)
      kept == {i \in 1 .. Len(str) :
                 ~Dot(i) \/ (i = runEnd(i) /\ (runEnd(i) - runStart(i) + 1) % 2 = 1)}
  IN [k \in 1 .. Cardinality(kept) |->
        str[CHOOSE i \in kept : Cardinality({j \in kept : j <= i}) = k]]

PathSeparators == {"/", "\\"}
SpecialCharacters == {"<", ">", ":", "\"", "|", "?", "*"}
\* [\x00-\x1f\x7f], of which the names of the model use these
ControlCharacters == {"\t", "\n"}
\* what String.prototype.trim removes, of the characters the names use
Whitespace == {" "}
MAX_NAME_LENGTH == 255
UnnamedFile == <<"u", "n", "n", "a", "m", "e", "d", "_", "f", "i", "l", "e">>

\* str.lastIndexOf('.'): an index from 0, -1 when there is none
lastIndexOfDot(str) ==
  IF \E i \in 1 .. Len(str) : str[i] = "."
    THEN (CHOOSE i \in 1 .. Len(str) :
            /\ str[i] = "."
            /\ \A j \in (i + 1) .. Len(str) : str[j] # ".") - 1
    ELSE -1

\* the four replace calls of sanitizeFileName
stripped(name) ==
  LET s1 == removeDotDot(name)
      s2 == SelectSeq(s1, LAMBDA ch : ch \notin PathSeparators)
      s3 == SelectSeq(s2, LAMBDA ch : ch \notin SpecialCharacters)
  IN SelectSeq(s3, LAMBDA ch : ch \notin ControlCharacters)

sanitizeFileName(name) ==
  LET sanitized == stripped(name)
      ext == lastIndexOfDot(sanitized)
      limited ==
        IF Len(sanitized) > MAX_NAME_LENGTH
          THEN IF ext > 0
                 THEN LET extension == slice(sanitized, ext, Len(sanitized))
                          baseName == slice(sanitized, 0, MAX_NAME_LENGTH - Len(extension))
                      IN baseName \o extension
                 ELSE slice(sanitized, 0, MAX_NAME_LENGTH)
          ELSE sanitized
  IN IF \A i \in 1 .. Len(limited) : limited[i] \in Whitespace THEN UnnamedFile ELSE limited

\* initializePeer: the id the host's peer registers under
fullPeerId(peerId) == <<"s", "t", "-">> \o toLowerCase(peerId)
\* connectAsClient: the id the client connects to
hostPeerId(targetRoomCode) == <<"s", "t", "-">> \o toLowerCase(normalizeRoomCode(targetRoomCode))

\* the texts the hook's fields hold and their characters
CodeTexts ==
  {[text |-> "AB3D-EF7H", chars |-> <<"A", "B", "3", "D", "-", "E", "F", "7", "H">>],
   [text |-> "AB3DEF7H", chars |-> <<"A", "B", "3", "D", "E", "F", "7", "H">>],
   [text |-> "st-ab3def7h", chars |-> <<"s", "t", "-", "a", "b", "3", "d", "e", "f", "7", "h">>],
   [text |-> "ZZZZ-9999", chars |-> <<"Z", "Z", "Z", "Z", "-", "9", "9", "9", "9">>],
   [text |-> "ZZZZ9999", chars |-> <<"Z", "Z", "Z", "Z", "9", "9", "9", "9">>],
   [text |-> "st-zzzz9999", chars |-> <<"s", "t", "-", "z", "z", "z", "z", "9", "9", "9", "9">>]}
Chars(text) == (CHOOSE r \in CodeTexts : r.text = text).chars
Text(chars) == (CHOOSE r \in CodeTexts : r.chars = chars).text

\* a missing Map entry; blockedUntil 0 stands for null (both are falsy)
NoEntry ==
  [present |-> FALSE, attempts |-> 0, firstAttempt |-> 0, lastAttempt |-> 0,
   blocked |-> FALSE, blockedUntil |-> 0]

\* isRateLimited deletes an expired entry, so it yields the answer and the store
isRateLimited(store, key, t) ==
  LET entry == store[key] IN
  IF ~entry.present
    THEN [limited |-> FALSE, store |-> store]
  ELSE IF entry.blocked /\ entry.blockedUntil # 0 /\ t < entry.blockedUntil
    THEN [limited |-> TRUE, store |-> store]
  ELSE IF t - entry.firstAttempt > CONNECTION_ATTEMPT_WINDOW_MS
    THEN [limited |-> FALSE, store |-> [store EXCEPT ![key] = NoEntry]]
  ELSE [limited |-> entry.attempts >= MAX_CONNECTION_ATTEMPTS, store |-> store]

recordAttempt_restartsWindow(store, key, t) ==
  [store EXCEPT ![key] =
     [present |-> TRUE, attempts |-> 1, firstAttempt |-> t, lastAttempt |-> t,
      blocked |-> FALSE, blockedUntil |-> 0]]
recordAttempt(store, key, t) ==
  LET entry == store[key] IN
  IF ~entry.present \/ t - entry.firstAttempt > CONNECTION_ATTEMPT_WINDOW_MS
    THEN [store EXCEPT ![key] =
            [present |-> TRUE, attempts |-> 1, firstAttempt |-> t, lastAttempt |-> t,
             blocked |-> FALSE, blockedUntil |-> 0]]
    ELSE LET n == entry.attempts + 1 IN
         [store EXCEPT ![key] =
            [entry EXCEPT !.attempts = n, !.lastAttempt = t,
                          !.blocked = IF n >= MAX_CONNECTION_ATTEMPTS THEN TRUE ELSE @,
                          !.blockedUntil = IF n >= MAX_CONNECTION_ATTEMPTS
                                             THEN t + BLOCK_DURATION_MS ELSE @]]

clearRateLimit(store, key) == [store EXCEPT ![key] = NoEntry]

\* sessionStore.set(session.roomCode, session) at time t
createSession(sessions, roomCode, t) ==
  LET normalized == normalizeRoomCode(roomCode)
  IN {s \in sessions : s.roomCode # normalized}
       \cup {[roomCode |-> normalized, createdAt |-> t,
               expiresAt |-> t + ROOM_CODE_EXPIRY_MS]}

destroySession(sessions, roomCode) ==
  LET normalized == normalizeRoomCode(roomCode)
  IN {s \in sessions : s.roomCode # normalized}

\* an isSessionValid that also rejects a session at the instant it expires
isSessionValid_atExpiry(sessions, roomCode, t) ==
  \E s \in sessions : s.roomCode = normalizeRoomCode(roomCode) /\ ~(t >= s.expiresAt)

\* what isSessionValid returns at time t
isSessionValid(sessions, roomCode, t) ==
  LET normalized == normalizeRoomCode(roomCode)
  IN \E s \in sessions : s.roomCode = normalized /\ ~(t > s.expiresAt)

\* the store after isSessionValid at time t: sessionStore.delete(normalized)
\* when the session is past its expiresAt
afterIsSessionValid(sessions, roomCode, t) ==
  LET normalized == normalizeRoomCode(roomCode)
  IN {s \in sessions : ~(s.roomCode = normalized /\ t > s.expiresAt)}

(* ------------------------------------------------------------------ *)
(* Wire messages (types/index.ts PeerMessage)                          *)
(* ------------------------------------------------------------------ *)
NoPayload == [null |-> TRUE]
Msg(type) == [type |-> type, payload |-> NoPayload]
ConnectionRequest(peerId) == [type |-> "connection_request", payload |-> [peerId |-> peerId]]
ConnectionDenied(reason) == [type |-> "connection_denied", payload |-> [reason |-> reason]]
PinAttempt(hashedPin, attemptNumber) ==
  [type |-> "pin_attempt", payload |-> [hashedPin |-> hashedPin, attemptNumber |-> attemptNumber]]
PinInvalid(attemptsRemaining) ==
  [type |-> "pin_invalid", payload |-> [attemptsRemaining |-> attemptsRemaining]]

(* ------------------------------------------------------------------ *)
(* State                                                               *)
(* ------------------------------------------------------------------ *)
VARIABLES
  host,            \* the useWebRTC instance with mode 'host': connectionInfo and refs
  client,          \* the useWebRTC instance with mode 'client'
  rateLimitStore,  \* utils/security rateLimitStore of the host, by peer identifier
  sessionStore,    \* utils/security sessionStore of the host: the sessions it holds
  now,             \* Date.now()
  awaiting,        \* host handleMessage invocations suspended at `await onConnectionRequest`
  pendingApproval, \* ReceiverView state: the request the approval modal shows
  timeRemaining,   \* ConnectionApprovalModal state, seconds
  isExpired,       \* ConnectionApprovalModal state
  isPinSet,        \* ReceiverView state
  hasInitialized,  \* ReceiverView ref: connect() is called once, on mount
  settingPin,      \* the PIN of a setPin call suspended at `await hashPin(pin)`, or NULL
  pinResolve,      \* the client handler suspended at `await onPinRequired()` (SenderView
                   \* pinResolve) or at `await hashPin(pin)`
  wire,            \* messages in flight on the data connection, per direction
  rx,              \* the useFileTransfer instance of the receiving side
  tx,              \* the useFileTransfer instance of the sending side
  event,           \* the callback that ran last and its input
  sent,            \* the messages the host handed to its open channel in that callback
  hist             \* history of the run, read by the properties only

vars == <<host, client, rateLimitStore, sessionStore, now, awaiting, pendingApproval,
          timeRemaining, isExpired, isPinSet, hasInitialized, settingPin, pinResolve,
          wire, rx, tx, event, sent, hist>>
hostUiVars == <<awaiting, pendingApproval, timeRemaining, isExpired>>
clientVars == <<client, pinResolve>>

(* ------------------------------------------------------------------ *)
(* File content.  A File or ArrayBuffer is given by the byte range it  *)
(* holds: bytes lo..hi-1 of source file src, `mutated` when a byte of  *)
(* it was changed after the sender read it.                            *)
(* ------------------------------------------------------------------ *)
FileIds == {"f1", "f2"}
Bytes(src, lo, hi) == [src |-> src, lo |-> lo, hi |-> hi, mutated |-> FALSE]
Hole == [src |-> NULL, lo |-> 0, hi |-> 0, mutated |-> FALSE]
byteLength(data) == data.hi - data.lo
ChunkIndexes == 0 .. (MaxChunks - 1)
EmptyArray == [i \in ChunkIndexes |-> Hole]

\* generateChecksum: the first 8 bytes of SHA-256(data) in hex; modelled as an
\* injective function of the bytes (digest collisions are left out)
generateChecksum(data) == [sha256 |-> data]
verifyChecksum(data, expectedChecksum) == generateChecksum(data) = expectedChecksum

\* Math.ceil(size / CHUNK_SIZE)
totalChunksOf(size) == (size + CHUNK_SIZE - 1) \div CHUNK_SIZE

BatchStart(totalFiles, totalSize) ==
  [type |-> "batch_start", payload |-> [totalFiles |-> totalFiles, totalSize |-> totalSize]]
FileMetadataMsg(id, size) ==
  [type |-> "file_metadata",
   payload |-> [id |-> id, size |-> size, totalChunks |-> totalChunksOf(size)]]
FileChunk(fileId, chunkIndex, totalChunks, data, checksum) ==
  [type |-> "file_chunk",
   payload |-> [fileId |-> fileId, chunkIndex |-> chunkIndex, totalChunks |-> totalChunks,
                data |-> data, checksum |-> checksum]]
FileComplete(fileId) == [type |-> "file_complete", payload |-> [fileId |-> fileId]]
TransferTypes ==
  {"batch_start", "file_metadata", "file_chunk", "file_complete", "batch_complete", "file_error"}

(* ------------------------------------------------------------------ *)
(* useFileTransfer, receiving side.  receivedChunksRef maps a file id  *)
(* to an array; arrays have identity (a closure of a pending checksum  *)
(* verification keeps the array it captured), so they live in `arrays` *)
(* under a reference number and the Map holds the reference, 0 when    *)
(* the Map has no entry.                                               *)
(* ------------------------------------------------------------------ *)
\* overallPercentage = (bytes / of) * 100, kept as the exact quotient: the
\* literals 0 and 100 are Percentage(0, 1) and Percentage(1, 1)
Percentage(bytes, of) == [bytes |-> bytes, of |-> of]
\* the percentage is 100 or more (Infinity when `of` is 0 and bytes is not)
ReachedHundred(p) == (p.of # 0 /\ p.bytes >= p.of) \/ (p.of = 0 /\ p.bytes > 0)

\* A speed is a JavaScript number; it is kept as the exact quotient num / den in
\* lowest terms with den > 0.
Abs(n) == IF n < 0 THEN 0 - n ELSE n
RECURSIVE Gcd(_, _)
Gcd(a, b) == IF b = 0 THEN a ELSE Gcd(b, a % b)
Quotient(n, d) ==
  LET g == Gcd(Abs(n), d) IN [num |-> n \div g, den |-> d \div g]
Zero == Quotient(0, 1)
\* a + b
Added(a, b) == Quotient(a.num * b.den + b.num * a.den, a.den * b.den)
RECURSIVE reduceSum(_)
\* samples.reduce((a, b) => a + b, 0)
reduceSum(samples) ==
  IF samples = <<>> THEN Zero ELSE Added(Head(samples), reduceSum(Tail(samples)))

\* a tracker that never drops a sample
calculateSpeed_keepsAll(u, totalBytesTransferred, t) ==
  LET timeDiff == t - u.lastSpeedUpdateRef
      u1 == IF timeDiff >= 500
              THEN [u EXCEPT !.speedSamplesRef =
                                Append(@, Quotient((totalBytesTransferred - u.lastBytesRef) * 1000,
                                                   timeDiff)),
                             !.lastSpeedUpdateRef = t,
                             !.lastBytesRef = totalBytesTransferred]
              ELSE u
      samples == u1.speedSamplesRef
  IN [hook |-> u1,
      speed |-> IF Len(samples) = 0 THEN Zero
                ELSE Quotient(reduceSum(samples).num, reduceSum(samples).den * Len(samples))]

\* calculateSpeed(totalBytesTransferred) at Date.now() = t on the refs of hook u:
\* the hook after it and the number it returns
calculateSpeed(u, totalBytesTransferred, t) ==
  LET timeDiff == t - u.lastSpeedUpdateRef
      speed == Quotient((totalBytesTransferred - u.lastBytesRef) * 1000, timeDiff)
      pushed == Append(u.speedSamplesRef, speed)
      u1 == IF timeDiff >= 500
              THEN [u EXCEPT !.speedSamplesRef = IF Len(pushed) > 5 THEN Tail(pushed) ELSE pushed,
                             !.lastSpeedUpdateRef = t,
                             !.lastBytesRef = totalBytesTransferred]
              ELSE u
      samples == u1.speedSamplesRef
  IN [hook |-> u1,
      speed |-> IF Len(samples) = 0 THEN Zero
                ELSE Quotient(reduceSum(samples).num, reduceSum(samples).den * Len(samples))]

NoMetadata == [id |-> NULL, size |-> 0, totalChunks |-> 0]
NoProgress == [status |-> NULL, bytesTransferred |-> 0]
BatchProgressInit ==
  [totalFiles |-> 0, completedFiles |-> 0, totalBytes |-> 0, bytesTransferred |-> 0,
   overallPercentage |-> Percentage(0, 1), currentFileId |-> NULL, status |-> "idle"]

RxInit ==
  [receivedChunksRef |-> [f \in FileIds |-> 0],
   arrays |-> <<>>,
   fileMetadataRef |-> [f \in FileIds |-> NoMetadata],
   fileProgress |-> [f \in FileIds |-> NoProgress],
   batchProgress |-> BatchProgressInit,
   isReceiving |-> FALSE,
   verifying |-> <<>>,
   delivered |-> <<>>,
   errors |-> {},
   speedSamplesRef |-> <<>>, lastSpeedUpdateRef |-> 0, lastBytesRef |-> 0]

RECURSIVE SumBytes(_, _)
\* chunks.reduce((sum, c) => sum + (c?.byteLength || 0), 0)
SumBytes(chunks, n) ==
  IF n = 0 THEN 0 ELSE SumBytes(chunks, n - 1) + byteLength(chunks[n - 1])

RECURSIVE Assemble(_, _)
\* new Blob(chunks.filter(c => c !== undefined)): the buffered chunks in index order
Assemble(chunks, n) ==
  IF n = 0 THEN <<>>
  ELSE Assemble(chunks, n - 1) \o (IF chunks[n - 1] = Hole THEN <<>> ELSE <<chunks[n - 1]>>)

\* updateFileProgress: only an existing entry is updated
updateFileProgress(r, fileId, updates) ==
  IF r.fileProgress[fileId].status # NULL
    THEN [r EXCEPT !.fileProgress[fileId] = updates @@ @]
    ELSE r

onError(r, error) == [r EXCEPT !.errors = @ \cup {error}]

RxBatchStart(r, p) ==
  [r EXCEPT !.isReceiving = TRUE,
            !.speedSamplesRef = <<>>,
            !.lastSpeedUpdateRef = now,
            !.lastBytesRef = 0,
            !.receivedChunksRef = [f \in FileIds |-> 0],
            !.fileMetadataRef = [f \in FileIds |-> NoMetadata],
            !.batchProgress = [totalFiles |-> p.totalFiles, completedFiles |-> 0,
                               totalBytes |-> p.totalSize, bytesTransferred |-> 0,
                               overallPercentage |-> Percentage(0, 1),
                               currentFileId |-> NULL, status |-> "transferring"]]

RxFileMetadata(r, p) ==
  [r EXCEPT !.fileMetadataRef[p.id] = [id |-> p.id, size |-> p.size, totalChunks |-> p.totalChunks],
            !.arrays = Append(@, EmptyArray),
            !.receivedChunksRef[p.id] = Len(r.arrays) + 1,
            !.fileProgress[p.id] = [status |-> "transferring", bytesTransferred |-> 0],
            !.batchProgress.currentFileId = p.id]

\* file_chunk up to verifyChecksum(...).then: the verification is started
RxFileChunk(r, p) ==
  IF r.receivedChunksRef[p.fileId] = 0
    THEN onError(r, "Received chunk for unknown file")
    ELSE [r EXCEPT !.verifying = Append(@, [chunk |-> p, chunks |-> r.receivedChunksRef[p.fileId]])]

\* the sum over receivedChunksRef.current of the bytes each array holds
TotalBytesReceived(r) ==
  LET held == {f \in FileIds : r.receivedChunksRef[f] # 0}
      RECURSIVE Sum(_)
      Sum(S) == IF S = {} THEN 0
                ELSE LET f == CHOOSE x \in S : TRUE
                     IN SumBytes(r.arrays[r.receivedChunksRef[f]], MaxChunks) + Sum(S \ {f})
  IN Sum(held)

\* a receiver that pushes each verified chunk in arrival order
RxVerified_appends(r, i) ==
  LET v == r.verifying[i]
      rest == [j \in 1 .. (Len(r.verifying) - 1) |->
                 IF j < i THEN r.verifying[j] ELSE r.verifying[j + 1]]
      r0 == [r EXCEPT !.verifying = rest]
      held == {k \in ChunkIndexes : r.arrays[v.chunks][k] # Hole}
      free == ChunkIndexes \ held
      at == IF free = {} THEN MaxChunks - 1 ELSE CHOOSE k \in free : \A x \in free : k <= x
  IN IF ~verifyChecksum(v.chunk.data, v.chunk.checksum)
       THEN onError(r0, "File corruption detected")
       ELSE [r0 EXCEPT !.arrays[v.chunks][at] = v.chunk.data]

\* the .then callback of the i-th pending verifyChecksum
RxVerified(r, i) ==
  LET v == r.verifying[i]
      rest == [j \in 1 .. (Len(r.verifying) - 1) |->
                 IF j < i THEN r.verifying[j] ELSE r.verifying[j + 1]]
      r0 == [r EXCEPT !.verifying = rest]
  IN IF ~verifyChecksum(v.chunk.data, v.chunk.checksum)
       THEN onError(r0, "File corruption detected")
       ELSE LET r1 == [r0 EXCEPT !.arrays[v.chunks][v.chunk.chunkIndex] = v.chunk.data]
                bytesTransferred == SumBytes(r1.arrays[v.chunks], MaxChunks)
            IN IF r1.fileMetadataRef[v.chunk.fileId].id = NULL THEN r1
               ELSE [updateFileProgress(calculateSpeed(r1, TotalBytesReceived(r1), now).hook,
                                        v.chunk.fileId, [bytesTransferred |-> bytesTransferred])
                       EXCEPT !.batchProgress.bytesTransferred = TotalBytesReceived(r1),
                              !.batchProgress.overallPercentage =
                                 Percentage(TotalBytesReceived(r1), r1.batchProgress.totalBytes)]

RxFileComplete(r, p) ==
  IF r.receivedChunksRef[p.fileId] = 0 \/ r.fileMetadataRef[p.fileId].id = NULL
    THEN onError(r, "File completion for unknown file")
    ELSE LET metadata == r.fileMetadataRef[p.fileId]
             blob == Assemble(r.arrays[r.receivedChunksRef[p.fileId]], MaxChunks)
             r1 == updateFileProgress(r, p.fileId,
                     [status |-> "completed", bytesTransferred |-> metadata.size])
         IN [r1 EXCEPT !.batchProgress.completedFiles = @ + 1,
                       !.receivedChunksRef[p.fileId] = 0,
                       !.delivered = Append(@, [metadata |-> metadata, blob |-> blob])]

RxBatchComplete(r) ==
  [r EXCEPT !.batchProgress.status = "completed",
            !.batchProgress.overallPercentage = Percentage(1, 1),
            !.isReceiving = FALSE,
            !.fileMetadataRef = [f \in FileIds |-> NoMetadata]]

RxFileError(r, p) ==
  onError(updateFileProgress(r, p.fileId, [status |-> "failed"]), p.error)

\* useFileTransfer handleMessage
handleTransferMessage(r, message) ==
  CASE message.type = "batch_start" -> RxBatchStart(r, message.payload)
    [] message.type = "file_metadata" -> RxFileMetadata(r, message.payload)
    [] message.type = "file_chunk" -> RxFileChunk(r, message.payload)
    [] message.type = "file_complete" -> RxFileComplete(r, message.payload)
    [] message.type = "batch_complete" -> RxBatchComplete(r)
    [] message.type = "file_error" -> RxFileError(r, message.payload)
    [] OTHER -> r

\* ReceiverView handleIncomingMessage
handleIncomingMessage(r, message) ==
  IF message.type \in TransferTypes THEN handleTransferMessage(r, message) ELSE r

(* ------------------------------------------------------------------ *)
(* useWebRTC: state of one hook instance and its helpers               *)
(* ------------------------------------------------------------------ *)
NoAttempt == [roomCode |-> NULL, retryCount |-> 0]
\* no reconnect timer is pending
NoTimer == [attempt |-> 0, setAt |-> 0, delay |-> 0]
HookInit ==
  [connectionInfo |-> [state |-> "idle", peerId |-> NULL, remotePeerId |-> NULL,
                       roomCode |-> NULL, error |-> NULL,
                       isPinRequired |-> FALSE, isPinVerified |-> FALSE],
   peerRef |-> NULL, connectionRef |-> NULL, heartbeatIntervalRef |-> NULL,
   pinHashRef |-> NULL, pinAttemptsRef |-> 0, roomCodeRef |-> NULL,
   isConnectingRef |-> FALSE,
   \* the connectAsHost call under way: its local roomCode and its retryCount
   connectAsHost |-> NoAttempt,
   \* conn.peer of connectionRef.current, and the remote peers whose data
   \* connection to peerRef.current is open with its handlers attached
   connectionPeer |-> NULL, peerConnections |-> {},
   \* initializePeer's closure: reconnectAttempts, peer.disconnected and the
   \* pending setTimeout of the 'disconnected' handler
   initializePeer |-> [reconnectAttempts |-> 0, disconnected |-> FALSE, timer |-> NoTimer]]

\* cleanup(): the hook after it, and the session store after destroySession
cleanup(h, sessions) ==
  [hook |-> [h EXCEPT !.heartbeatIntervalRef = NULL, !.connectionRef = NULL,
                      !.connectionPeer = NULL, !.peerConnections = {},
                      !.peerRef = NULL, !.roomCodeRef = NULL,
                      !.pinHashRef = NULL, !.pinAttemptsRef = 0],
   sessions |-> IF h.roomCodeRef # NULL THEN destroySession(sessions, Chars(h.roomCodeRef))
                ELSE sessions]

\* setConnectionInfo(prev => ({ ...prev, ...updates }))
updateState(h, updates) == [h EXCEPT !.connectionInfo = updates @@ @]

\* sendMessage returns false, and sends nothing, without an open connection
sendMessage(h, message) == h.connectionRef = "open"

\* the messages of `messages` that sendMessage hands to the channel
Sending(h, messages) == IF sendMessage(h, messages) THEN messages ELSE <<>>

startHeartbeat(h) == [h EXCEPT !.heartbeatIntervalRef = "interval"]

(* ------------------------------------------------------------------ *)
(* History and observation                                             *)
(* ------------------------------------------------------------------ *)
Ev(kind, msg) == [kind |-> kind, msg |-> msg]

HistInit ==
  [approved |-> {},                               \* peers the provider resolved true for
   invoked |-> FALSE,                             \* the last callback invoked the provider
   requests |-> [p \in PeerIds |-> <<>>],         \* arrival times of each peer's requests
   window |-> [p \in PeerIds |-> [start |-> 0, count |-> 0]],
   nReq |-> 0, nPin |-> 0, nXfer |-> 0, nAdv |-> 0,
   failedPins |-> 0,                              \* mismatching pin_attempts received
   pinChallenge |-> FALSE,                        \* approved with a PIN set, no match yet
   undecided |-> {},                              \* presented requests without a decision
   attempts |-> <<>>,                             \* what the client entered and what it sent
   pinAtApproval |-> NULL,                        \* pinHashRef when the provider resolved true
   usedIds |-> {},                                \* file ids generateFileId has produced
   tampered |-> {},                               \* files with a chunk changed in transit
   detected |-> {},                               \* files with a chunk that failed verification
   calls |-> 0,                                   \* sendFiles calls made
   emitted |-> <<>>,                              \* what the current sendFiles handed to the channel
   sendFailed |-> FALSE,                          \* a sendMessage of it returned false
   afterFailure |-> FALSE,                        \* it handed a message over after that
   afterCancel |-> <<>>,                          \* what it handed over with cancelledRef set
   atCancel |-> {},                               \* files pending or transferring at cancelTransfer
   reported |-> FALSE,                            \* it called onTransferComplete
   nDisc |-> 0,                                   \* disconnect messages a remote end sent unasked
   arrivals |-> <<>>,                             \* arrival time of every connection_request
   approvedAt |-> -1,                             \* arrival time of the last approved one
   chunksIn |-> <<>>,                             \* chunkIndex of every file_chunk, as they arrived
   speedCalls |-> 0,                              \* calculateSpeed calls made
   speedTotal |-> 0,                              \* the total the last of them was given
   drops |-> 0,                                   \* 'disconnected' events of the signalling peer
   reconnects |-> 0,                              \* peer.reconnect() calls made
   lastEmitter |-> 0,                             \* the sendFiles call that emitted last
   interleaved |-> FALSE]                         \* an earlier call emitted after a later one

\* what every callback resets
Step(h) == [h EXCEPT !.invoked = FALSE]

NoPending == [peerId |-> NULL, id |-> 0]

(* ------------------------------------------------------------------ *)
(* useWebRTC handleMessage, mode 'host'                                *)
(* ------------------------------------------------------------------ *)
\* case 'connection_request', after `await onConnectionRequestRef.current(...)`
afterApproval_skipsPin(h, store, remotePeerId, approved) ==
  IF approved
    THEN [hook |-> startHeartbeat(updateState(h,
                     [state |-> "connected", remotePeerId |-> remotePeerId])),
          store |-> clearRateLimit(store, remotePeerId),
          out |-> Sending(h, <<Msg("connection_approved")>>)]
    ELSE [hook |-> updateState(h, [state |-> "idle"]),
          store |-> store,
          out |-> Sending(h, <<ConnectionDenied("Connection denied")>>)]
afterApproval(h, store, remotePeerId, approved) ==
  IF approved
    THEN IF h.pinHashRef # NULL
           THEN [hook |-> updateState(h, [isPinRequired |-> TRUE]),
                 store |-> clearRateLimit(store, remotePeerId),
                 out |-> Sending(h, <<Msg("pin_required")>>)]
           ELSE [hook |-> startHeartbeat(updateState(h,
                            [state |-> "connected", remotePeerId |-> remotePeerId])),
                 store |-> clearRateLimit(store, remotePeerId),
                 out |-> Sending(h, <<Msg("connection_approved")>>)]
    ELSE [hook |-> updateState(h, [state |-> "idle"]),
          store |-> store,
          out |-> Sending(h, <<ConnectionDenied("Connection denied")>>)]

\* the rate-limit window as the history counts it: it opens at the first request
\* the provider is asked about and lasts CONNECTION_ATTEMPT_WINDOW_MS
Counted(w, t) ==
  IF w.count = 0 \/ t - w.start > CONNECTION_ATTEMPT_WINDOW_MS
    THEN [start |-> t, count |-> 1]
    ELSE [w EXCEPT !.count = @ + 1]

\* case 'connection_request' up to the await, with handleConnectionRequest of
\* ReceiverView and the effects of ConnectionApprovalModal it triggers
OnConnectionRequest(message) ==
  LET remotePeerId == message.payload.peerId
      rl == isRateLimited(rateLimitStore, remotePeerId, now)
      h0 == [Step(hist) EXCEPT !.nReq = @ + 1,
                               !.requests[remotePeerId] = Append(@, now),
                               !.arrivals = Append(@, now)]
  IN IF rl.limited
       THEN /\ sent' = Sending(host, <<ConnectionDenied("Too many attempts")>>)
            /\ rateLimitStore' = rl.store
            /\ hist' = h0
            /\ UNCHANGED <<host, awaiting, pendingApproval, timeRemaining, isExpired>>
       ELSE LET h1 == updateState(host, [state |-> "awaiting_approval"])
                store1 == recordAttempt(rl.store, remotePeerId, now)
                request == [peerId |-> remotePeerId, id |-> hist.nReq + 1]
                h2 == [h0 EXCEPT !.invoked = TRUE,
                                 !.window[remotePeerId] = Counted(@, now)]
            IN IF pendingApproval.id = 0 /\ isExpired
                 THEN \* the modal opens with isExpired still true from the last
                      \* timeout: its auto-deny effect runs with the new onDeny
                      LET res == afterApproval(h1, store1, remotePeerId, FALSE)
                      IN /\ host' = res.hook
                         /\ rateLimitStore' = res.store
                         /\ sent' = res.out
                         /\ isExpired' = FALSE
                         /\ timeRemaining' = APPROVAL_TIMEOUT_MS \div 1000
                         /\ hist' = h2
                         /\ UNCHANGED <<awaiting, pendingApproval>>
                 ELSE /\ host' = h1
                      /\ rateLimitStore' = store1
                      /\ sent' = <<>>
                      /\ awaiting' = awaiting \cup {request}
                      /\ pendingApproval' = request
                      /\ timeRemaining' = IF pendingApproval.id = 0
                                            THEN APPROVAL_TIMEOUT_MS \div 1000
                                            ELSE timeRemaining
                      /\ isExpired' = FALSE
                      /\ hist' = [h2 EXCEPT !.undecided =
                                    @ \cup {[id |-> request.id, presentedAt |-> now]}]

\* case 'pin_attempt'
OnPinAttempt(message) ==
  LET hashedPin == message.payload.hashedPin
      attemptNumber == message.payload.attemptNumber
      h0 == [Step(hist) EXCEPT !.nPin = @ + 1]
  IN IF hashedPin = host.pinHashRef
       THEN /\ sent' = Sending(host, <<Msg("pin_verified"), Msg("connection_approved")>>)
            /\ host' = startHeartbeat(updateState(host,
                         [state |-> "connected", isPinVerified |-> TRUE]))
            /\ hist' = [h0 EXCEPT !.pinChallenge = FALSE]
            /\ UNCHANGED sessionStore
       ELSE LET h1 == [host EXCEPT !.pinAttemptsRef = attemptNumber]
            IN /\ hist' = [h0 EXCEPT !.failedPins = IF host.pinHashRef # NULL THEN @ + 1 ELSE @]
               /\ IF attemptNumber >= MAX_PIN_ATTEMPTS
                    THEN LET c == cleanup(h1, sessionStore)
                         IN /\ sent' = Sending(h1, <<ConnectionDenied("Too many PIN attempts")>>)
                            /\ host' = updateState(c.hook, [state |-> "idle"])
                            /\ sessionStore' = c.sessions
                    ELSE /\ sent' = Sending(h1, <<PinInvalid(MAX_PIN_ATTEMPTS - attemptNumber)>>)
                         /\ host' = h1
                         /\ UNCHANGED sessionStore

\* a 'disconnect' case that sets the state and tears nothing down
OnDisconnect_stateOnly(h, sessions) ==
  [hook |-> updateState(h, [state |-> "disconnected"]), sessions |-> sessions]

\* case 'disconnect'
OnDisconnect(h, sessions) ==
  LET c == cleanup(h, sessions)
  IN [hook |-> updateState(c.hook, [state |-> "disconnected"]), sessions |-> c.sessions]

\* handleMessage of the host instance
HostHandle(message) ==
  CASE message.type = "connection_request" ->
         /\ OnConnectionRequest(message)
         /\ UNCHANGED <<sessionStore, rx>>
    [] message.type = "pin_attempt" ->
         /\ OnPinAttempt(message)
         /\ UNCHANGED <<rateLimitStore, rx, awaiting, pendingApproval, timeRemaining, isExpired>>
    [] message.type = "disconnect" ->
         LET d == OnDisconnect(host, sessionStore)
         IN /\ host' = d.hook
            /\ sessionStore' = d.sessions
            /\ sent' = <<>>
            /\ hist' = Step(hist)
            /\ UNCHANGED <<rateLimitStore, rx, awaiting, pendingApproval, timeRemaining, isExpired>>
    [] message.type \in {"connection_approved", "connection_denied", "pin_required",
                         "pin_verified", "pin_invalid", "heartbeat"} ->
         \* cases that act in mode 'client' only, and 'heartbeat'
         /\ sent' = <<>>
         /\ hist' = Step(hist)
         /\ UNCHANGED <<host, rateLimitStore, sessionStore, rx,
                        awaiting, pendingApproval, timeRemaining, isExpired>>
    [] OTHER ->
         \* default: onMessageRef.current?.(message)
         /\ rx' = handleIncomingMessage(rx, message)
         /\ sent' = <<>>
         /\ hist' = [Step(hist) EXCEPT
                       !.nXfer = @ + 1,
                       !.chunksIn = IF message.type = "file_chunk"
                                      THEN Append(@, message.payload.chunkIndex) ELSE @]
         /\ UNCHANGED <<host, rateLimitStore, sessionStore,
                        awaiting, pendingApproval, timeRemaining, isExpired>>

\* conn.on('data') of connectAsHost
HostReceive(message) ==
  /\ host.connectionRef = "open"
  /\ HostHandle(message)
  /\ event' = Ev("message", message)

(* ------------------------------------------------------------------ *)
(* The approval provider: ReceiverView and ConnectionApprovalModal     *)
(* ------------------------------------------------------------------ *)
\* pendingApproval.resolve(approved); setPendingApproval(null); and the handler
\* suspended on that promise continues
Resolve(approved, h) ==
  LET request == pendingApproval
      res == afterApproval(host, rateLimitStore, request.peerId, approved)
  IN /\ host' = res.hook
     /\ rateLimitStore' = res.store
     /\ sent' = res.out
     /\ awaiting' = awaiting \ {request}
     /\ pendingApproval' = NoPending
     /\ hist' = [h EXCEPT
          !.approved = IF approved THEN @ \cup {request.peerId} ELSE @,
          !.window[request.peerId] = IF approved THEN [start |-> 0, count |-> 0] ELSE @,
          !.pinChallenge = IF approved /\ host.pinHashRef # NULL THEN TRUE ELSE @,
          !.pinAtApproval = IF approved THEN host.pinHashRef ELSE @,
          !.approvedAt = IF approved THEN h.arrivals[request.id] ELSE @,
          !.undecided = {u \in @ : u.id # request.id}]

\* connectionRef.current.send(message): what the host handed to the channel in this
\* callback travels to the client instance, when one holds the other end
Emit ==
  wire' = IF client.connectionRef = "open"
            THEN [wire EXCEPT !.toClient = @ \o sent'] ELSE wire

\* the Approve button: handleApprove of the modal, then of ReceiverView
Approve ==
  /\ pendingApproval.id # 0
  /\ ~isExpired
  /\ Resolve(TRUE, Step(hist))
  /\ event' = Ev("approve", Msg("none"))
  /\ Emit
  /\ UNCHANGED <<client, sessionStore, now, timeRemaining, isExpired, isPinSet,
                 hasInitialized, settingPin, pinResolve, rx, tx>>

\* the Deny button: handleDeny
Deny ==
  /\ pendingApproval.id # 0
  /\ Resolve(FALSE, Step(hist))
  /\ event' = Ev("deny", Msg("none"))
  /\ Emit
  /\ UNCHANGED <<client, sessionStore, now, timeRemaining, isExpired, isPinSet,
                 hasInitialized, settingPin, pinResolve, rx, tx>>

\* d milliseconds pass.  While the modal counts down, its setInterval callback
\* runs every COUNTDOWN_INTERVAL_MS; time does not pass beyond the callback
\* that finds prev <= 1, which sets isExpired and so runs the auto-deny effect.
Advance(d) ==
  LET counting == pendingApproval.id # 0 /\ ~isExpired
      k == d \div COUNTDOWN_INTERVAL_MS
      h == [Step(hist) EXCEPT !.nAdv = @ + 1]
  IN /\ counting => k <= timeRemaining
     /\ now' = now + d
     /\ event' = Ev("time", Msg("none"))
     /\ IF counting /\ k = timeRemaining
          THEN /\ timeRemaining' = 0
               /\ isExpired' = TRUE
               /\ Resolve(FALSE, h)
          ELSE /\ timeRemaining' = IF counting THEN timeRemaining - k ELSE timeRemaining
               /\ sent' = <<>>
               /\ hist' = h
               /\ UNCHANGED <<host, rateLimitStore, awaiting, pendingApproval, isExpired>>
     /\ Emit
     /\ UNCHANGED <<client, sessionStore, isPinSet, hasInitialized, settingPin,
                    pinResolve, rx, tx>>

\* handleSetPin: setPin(pin) up to `await hashPin(pin)`, and setIsPinSet(true)
SetPin(pin) ==
  /\ ~isPinSet
  /\ host.connectionInfo.state # "connected"
  /\ isPinSet' = TRUE
  /\ settingPin' = pin
  /\ event' = Ev("setPin", Msg("none"))
  /\ sent' = <<>>
  /\ hist' = Step(hist)
  /\ UNCHANGED <<host, client, rateLimitStore, sessionStore, now, awaiting, pendingApproval,
                 timeRemaining, isExpired, hasInitialized, pinResolve, wire, rx, tx>>

\* setPin after the await: pinHashRef.current = hashedPin
PinHashed ==
  /\ settingPin # NULL
  /\ host' = updateState([host EXCEPT !.pinHashRef = hashPin(settingPin)],
                         [isPinRequired |-> TRUE])
  /\ settingPin' = NULL
  /\ event' = Ev("pinHashed", Msg("none"))
  /\ sent' = <<>>
  /\ hist' = Step(hist)
  /\ UNCHANGED <<client, rateLimitStore, sessionStore, now, awaiting, pendingApproval,
                 timeRemaining, isExpired, isPinSet, hasInitialized, pinResolve, wire, rx, tx>>

(* ------------------------------------------------------------------ *)
(* useWebRTC connect / disconnect and channel events, mode 'host'      *)
(* ------------------------------------------------------------------ *)
\* connect() and connectAsHost up to `await initializePeer(...)`
HostConnect ==
  /\ ~hasInitialized
  /\ ~host.isConnectingRef
  /\ host.peerRef = NULL
  /\ hasInitialized' = TRUE
  /\ LET c == cleanup(host, sessionStore)
     IN /\ host' = updateState([c.hook EXCEPT
                                  !.isConnectingRef = TRUE,
                                  !.connectAsHost = [roomCode |-> RoomCode, retryCount |-> 0]],
                               [state |-> "connecting"])
        /\ sessionStore' = createSession(c.sessions, Chars(RoomCode), now)
  /\ event' = Ev("connect", Msg("none"))
  /\ sent' = <<>>
  /\ hist' = Step(hist)
  /\ UNCHANGED <<client, rateLimitStore, now, awaiting, pendingApproval, timeRemaining,
                 isExpired, isPinSet, settingPin, pinResolve, wire, rx, tx>>

\* connectAsHost once the signalling peer is open and stable: the room is shown
HostRoomReady ==
  /\ host.isConnectingRef
  /\ host.connectionInfo.state = "connecting"
  /\ LET roomCode == host.connectAsHost.roomCode
     IN host' = updateState([host EXCEPT !.peerRef = "peer", !.isConnectingRef = FALSE,
                                         !.roomCodeRef = roomCode,
                                         !.connectAsHost = NoAttempt],
                            [state |-> "idle", roomCode |-> roomCode,
                             peerId |-> Text(fullPeerId(normalizeRoomCode(Chars(roomCode))))])
  /\ event' = Ev("roomReady", Msg("none"))
  /\ sent' = <<>>
  /\ hist' = Step(hist)
  /\ UNCHANGED <<client, rateLimitStore, sessionStore, now, awaiting, pendingApproval,
                 timeRemaining, isExpired, isPinSet, hasInitialized, settingPin,
                 pinResolve, wire, rx, tx>>

\* connectAsHost's catch: initializePeer rejected (the signalling server did not
\* answer within the timeout, or reported an error).  Below MAX_RETRIES the
\* call waits RETRY_DELAY * (retryCount + 1) and runs connectAsHost(retryCount + 1)
\* up to its `await initializePeer(...)`, with the room code `roomCode` that
\* generateSecureRoomCode gives it; at MAX_RETRIES it gives up.
HostAttemptFailed ==
  /\ host.isConnectingRef
  /\ host.connectionInfo.state = "connecting"
  /\ LET retryCount == host.connectAsHost.retryCount
     IN IF retryCount < MAX_RETRIES
          THEN \E roomCode \in HostRoomCodes :
                 /\ host' = updateState([host EXCEPT !.connectAsHost =
                                           [roomCode |-> roomCode,
                                            retryCount |-> retryCount + 1]],
                                        [state |-> "connecting"])
                 /\ now' = now + RETRY_DELAY * (retryCount + 1)
                 /\ sessionStore' = createSession(sessionStore, Chars(roomCode), now')
          ELSE /\ host' = updateState([host EXCEPT !.isConnectingRef = FALSE,
                                                  !.connectAsHost = NoAttempt],
                                      [state |-> "error",
                                       error |-> "Failed to connect. Please refresh the page."])
               /\ UNCHANGED <<now, sessionStore>>
  /\ event' = Ev("attemptFailed", Msg("none"))
  /\ sent' = <<>>
  /\ hist' = Step(hist)
  /\ UNCHANGED <<client, rateLimitStore, awaiting, pendingApproval, timeRemaining,
                 isExpired, isPinSet, hasInitialized, settingPin, pinResolve, wire, rx, tx>>

\* peer.on('connection') with the data connection `peer` opened
OnConnection(peer) ==
  /\ host.peerRef # NULL
  /\ host' = updateState([host EXCEPT !.connectionRef = "open", !.connectionPeer = peer,
                                      !.peerConnections = @ \cup {peer}],
                         [remotePeerId |-> peer])
  /\ event' = Ev("connection", Msg("none"))
  /\ sent' = <<>>
  /\ hist' = Step(hist)
  /\ UNCHANGED <<client, rateLimitStore, sessionStore, now, awaiting, pendingApproval,
                 timeRemaining, isExpired, isPinSet, hasInitialized, settingPin,
                 pinResolve, wire, rx, tx>>

\* peer.on('connection'): the remote endpoint opened a data connection
HostOnConnection ==
  /\ host.connectionRef = NULL
  /\ OnConnection(ClientId)

\* peer.on('connection') while the host holds a connection: another peer opened one
HostOnSecondConnection ==
  /\ host.connectionRef = "open"
  /\ \E peer \in PeerIds \ host.peerConnections : OnConnection(peer)

\* conn.on('data') of the connection that `peer` opened
HostReceiveOn(peer, message) ==
  /\ peer \in host.peerConnections
  /\ HostHandle(message)
  /\ event' = [kind |-> "message", msg |-> message, on |-> peer]
  /\ UNCHANGED <<client, now, isPinSet, hasInitialized, settingPin, pinResolve, wire, tx>>

\* conn.on('close')
HostOnClose ==
  /\ host.connectionRef = "open"
  /\ LET d == OnDisconnect(host, sessionStore)
     IN /\ host' = d.hook
        /\ sessionStore' = d.sessions
  /\ event' = Ev("close", Msg("none"))
  /\ sent' = <<>>
  /\ hist' = Step(hist)
  /\ UNCHANGED <<client, rateLimitStore, now, awaiting, pendingApproval, timeRemaining,
                 isExpired, isPinSet, hasInitialized, settingPin, pinResolve, wire, rx, tx>>

\* disconnect(), the Disconnect button of ReceiverView (shown while connected)
HostDisconnect ==
  /\ host.connectionInfo.state = "connected"
  /\ LET c == cleanup(host, sessionStore)
     IN /\ sent' = IF host.connectionRef # NULL THEN Sending(host, <<Msg("disconnect")>>)
                   ELSE <<>>
        /\ host' = [c.hook EXCEPT !.connectionInfo = HookInit.connectionInfo]
        /\ sessionStore' = c.sessions
  /\ event' = Ev("disconnect", Msg("none"))
  /\ hist' = Step(hist)
  /\ Emit
  /\ UNCHANGED <<client, rateLimitStore, now, awaiting, pendingApproval, timeRemaining,
                 isExpired, isPinSet, hasInitialized, settingPin, pinResolve, rx, tx>>

\* a reconnect delay without the 10 s cap
reconnectDelay_uncapped(reconnectAttempts) == 1000 * 2 ^ (reconnectAttempts - 1)

\* Math.min(1000 * Math.pow(2, reconnectAttempts - 1), 10000)
reconnectDelay(reconnectAttempts) ==
  IF 1000 * 2 ^ (reconnectAttempts - 1) < 10000
    THEN 1000 * 2 ^ (reconnectAttempts - 1) ELSE 10000

\* peer.on('disconnected') of initializePeer: the signalling server dropped the
\* host's live peer
SignalDisconnected ==
  /\ host.peerRef # NULL
  /\ ~host.initializePeer.disconnected
  /\ hist.drops < MaxSignalDrops
  /\ LET p == host.initializePeer
         h == [host EXCEPT !.initializePeer.disconnected = TRUE]
     IN host' = IF p.reconnectAttempts < MAX_RECONNECT_ATTEMPTS
                  THEN [h EXCEPT !.initializePeer.reconnectAttempts = @ + 1,
                                 !.initializePeer.timer =
                                    [attempt |-> p.reconnectAttempts + 1, setAt |-> now,
                                     delay |-> reconnectDelay(p.reconnectAttempts + 1)]]
                  ELSE updateState(h, [state |-> "error",
                                       error |-> "Connection lost. Please refresh the page."])
  /\ event' = Ev("signalDisconnected", Msg("none"))
  /\ sent' = <<>>
  /\ hist' = [Step(hist) EXCEPT !.drops = @ + 1]
  /\ UNCHANGED <<client, rateLimitStore, sessionStore, now, awaiting, pendingApproval,
                 timeRemaining, isExpired, isPinSet, hasInitialized, settingPin,
                 pinResolve, wire, rx, tx>>

\* the setTimeout callback of the 'disconnected' handler, `delay` after it was
\* set: peer.reconnect() unless the peer was destroyed meanwhile
ReconnectTimer ==
  /\ host.initializePeer.timer # NoTimer
  /\ LET timer == host.initializePeer.timer
         due == timer.setAt + timer.delay
         reconnects == host.peerRef # NULL /\ host.initializePeer.disconnected
     IN /\ now' = IF due > now THEN due ELSE now
        /\ host' = [host EXCEPT !.initializePeer.timer = NoTimer,
                                !.initializePeer.disconnected =
                                   IF reconnects THEN FALSE ELSE @]
        /\ hist' = [Step(hist) EXCEPT !.reconnects = IF reconnects THEN @ + 1 ELSE @]
  /\ event' = Ev("reconnectTimer", Msg("none"))
  /\ sent' = <<>>
  /\ UNCHANGED <<client, rateLimitStore, sessionStore, awaiting, pendingApproval,
                 timeRemaining, isExpired, isPinSet, hasInitialized, settingPin,
                 pinResolve, wire, rx, tx>>

\* the setInterval callback of startHeartbeat: it runs as long as the interval
\* has not been cleared
HostHeartbeat ==
  /\ host.heartbeatIntervalRef # NULL
  /\ sent' = Sending(host, <<Msg("heartbeat")>>)
  /\ event' = Ev("heartbeat", Msg("none"))
  /\ hist' = Step(hist)
  /\ Emit
  /\ UNCHANGED <<host, client, rateLimitStore, sessionStore, now, awaiting, pendingApproval,
                 timeRemaining, isExpired, isPinSet, hasInitialized, settingPin,
                 pinResolve, rx, tx>>

\* conn.on('error') of the host's data connection
HostOnError ==
  /\ host.connectionRef = "open"
  /\ host' = updateState(host, [state |-> "error", error |-> "Connection error"])
  /\ event' = Ev("connectionError", Msg("none"))
  /\ sent' = <<>>
  /\ hist' = Step(hist)
  /\ UNCHANGED <<client, rateLimitStore, sessionStore, now, awaiting, pendingApproval,
                 timeRemaining, isExpired, isPinSet, hasInitialized, settingPin,
                 pinResolve, wire, rx, tx>>

\* the .then callback of a pending verifyChecksum on the receiving side
Verified ==
  /\ \E i \in 1 .. Len(rx.verifying) :
       /\ rx' = RxVerified(rx, i)
       /\ hist' = [Step(hist) EXCEPT !.detected =
                     IF verifyChecksum(rx.verifying[i].chunk.data, rx.verifying[i].chunk.checksum)
                       THEN @ ELSE @ \cup {rx.verifying[i].chunk.fileId}]
  /\ event' = Ev("verified", Msg("none"))
  /\ sent' = <<>>
  /\ UNCHANGED <<host, client, rateLimitStore, sessionStore, now, awaiting, pendingApproval,
                 timeRemaining, isExpired, isPinSet, hasInitialized, settingPin,
                 pinResolve, wire, tx>>

(* ------------------------------------------------------------------ *)
(* The remote endpoint as an arbitrary peer: it may send any message   *)
(* of `Allowed` on its data connection at any time                     *)
(* ------------------------------------------------------------------ *)
PinHashes == {NULL} \cup {hashPin(pin) : pin \in Pins}

Requests(Peers, max) ==
  IF hist.nReq < max THEN {ConnectionRequest(p) : p \in Peers} ELSE {}

PinAttempts(max) ==
  IF hist.nPin < max
    THEN {PinAttempt(h, n) : h \in PinHashes, n \in {1, MAX_PIN_ATTEMPTS}} ELSE {}

TransferMessages(max) ==
  IF hist.nXfer < max
    THEN {BatchStart(1, 1), FileMetadataMsg("f1", 1),
          FileChunk("f1", 0, 1, Bytes("f1", 0, 1), generateChecksum(Bytes("f1", 0, 1))),
          FileComplete("f1")}
    ELSE {}

PeerSends(Allowed) ==
  /\ \E message \in Allowed : HostReceive(message)
  /\ UNCHANGED <<client, now, isPinSet, hasInitialized, settingPin, pinResolve, wire, tx>>

Elapse(Steps, max) ==
  /\ hist.nAdv < max
  /\ \E d \in Steps : Advance(d)

NoPrompt == [stage |-> "none", handler |-> NULL, attemptsRemaining |-> 0, pin |-> NULL]
WireInit == [toHost |-> <<>>, toClient |-> <<>>]
NoLoop ==
  [pc |-> "idle", validFiles |-> <<>>, fileIndex |-> 0, chunkIndex |-> 0,
   totalBytesTransferred |-> 0, closureFileProgress |-> [f \in FileIds |-> NoProgress],
   call |-> 0]
TxInit ==
  [isSending |-> FALSE, cancelledRef |-> FALSE, pc |-> "idle", validFiles |-> <<>>,
   fileIndex |-> 0, chunkIndex |-> 0, totalBytesTransferred |-> 0,
   closureFileProgress |-> [f \in FileIds |-> NoProgress], fileProgress |-> [f \in FileIds |-> NoProgress],
   batchProgress |-> BatchProgressInit, errors |-> {}, call |-> 0, earlier |-> NoLoop,
   speedSamplesRef |-> <<>>, lastSpeedUpdateRef |-> 0, lastBytesRef |-> 0]

Init ==
  /\ host = HookInit
  /\ client = HookInit
  /\ rateLimitStore = [p \in PeerIds |-> NoEntry]
  /\ sessionStore = {}
  /\ now = 0
  /\ awaiting = {}
  /\ pendingApproval = NoPending
  /\ timeRemaining = APPROVAL_TIMEOUT_MS \div 1000
  /\ isExpired = FALSE
  /\ isPinSet = FALSE
  /\ hasInitialized = FALSE
  /\ settingPin = NULL
  /\ pinResolve = NoPrompt
  /\ wire = WireInit
  /\ rx = RxInit
  /\ tx = TxInit
  /\ event = Ev("init", Msg("none"))
  /\ sent = <<>>
  /\ hist = HistInit

(* ------------------------------------------------------------------ *)
(* Spec: the handshake of the host with an arbitrary peer              *)
(* ------------------------------------------------------------------ *)
HandshakeMessages ==
  Requests({ClientId}, MaxRequests) \cup PinAttempts(MaxPinAttempts) \cup {Msg("disconnect")}

ModalSteps == {15000}

Next ==
  \/ HostConnect
  \/ HostRoomReady
  \/ HostOnConnection
  \/ PeerSends(HandshakeMessages)
  \/ Approve
  \/ Deny
  \/ Elapse(ModalSteps, MaxAdvances)
  \/ SetPin(HostPin)
  \/ PinHashed
  \/ HostOnClose
  \/ HostDisconnect

Spec == Init /\ [][Next]_vars

(* ------------------------------------------------------------------ *)
(* SpecRate: connection requests over time, for the rate limiter       *)
(* ------------------------------------------------------------------ *)
RateSteps == {1000, 300000}

NextRate ==
  \/ HostConnect
  \/ HostRoomReady
  \/ HostOnConnection
  \/ PeerSends(Requests(PeerIds, MaxRateRequests))
  \/ Approve
  \/ Deny
  \/ Elapse(RateSteps, MaxRateAdvances)

SpecRate == Init /\ [][NextRate]_vars

(* ------------------------------------------------------------------ *)
(* SpecGate: handshake and transfer messages of an arbitrary peer      *)
(* ------------------------------------------------------------------ *)
GateMessages ==
  Requests({ClientId}, 1) \cup PinAttempts(1) \cup TransferMessages(MaxTransferMessages)

NextGate ==
  \/ HostConnect
  \/ HostRoomReady
  \/ HostOnConnection
  \/ PeerSends(GateMessages)
  \/ Approve
  \/ Deny
  \/ SetPin(HostPin)
  \/ PinHashed
  \/ Verified

SpecGate == Init /\ [][NextGate]_vars

(* ------------------------------------------------------------------ *)
(* useWebRTC, mode 'client', with the PIN prompt of SenderView          *)
(* ------------------------------------------------------------------ *)
\* what every callback of the client instance leaves alone
ClientStep ==
  /\ sent' = <<>>
  /\ UNCHANGED <<host, rateLimitStore, sessionStore, now, awaiting, pendingApproval,
                 timeRemaining, isExpired, isPinSet, hasInitialized, settingPin, rx, tx>>

\* connect(roomCode): it returns at once while a connect() is in progress or a
\* peer exists, and else runs connectAsClient up to `await initializePeer(clientId)`
connect(h) ==
  IF h.isConnectingRef \/ h.peerRef # NULL
    THEN h
    ELSE updateState([cleanup(h, {}).hook EXCEPT !.isConnectingRef = TRUE],
                     [state |-> "connecting"])

\* handleConnect of SenderView in state 'idle': the first connect(roomCode)
ClientConnect ==
  /\ client.connectionInfo.state = "idle"
  /\ connect(client) # client
  /\ client' = connect(client)
  /\ event' = Ev("clientConnect", Msg("none"))
  /\ hist' = Step(hist)
  /\ ClientStep
  /\ UNCHANGED <<pinResolve, wire>>

\* handleConnect of SenderView in state 'error' or 'disconnected' (the connect
\* form is shown whenever the client is not connected)
ClientReconnect ==
  /\ client.connectionInfo.state \in {"error", "disconnected"}
  /\ client' = connect(client)
  /\ event' = Ev("clientReconnect", Msg("none"))
  /\ hist' = Step(hist)
  /\ ClientStep
  /\ UNCHANGED <<pinResolve, wire>>

\* connectAsClient after the await: peer.connect(hostPeerId), the handlers are set
ClientPeerReady ==
  /\ client.isConnectingRef
  /\ client' = [client EXCEPT !.peerRef = "peer", !.connectionRef = "pending",
                              !.isConnectingRef = FALSE]
  /\ event' = Ev("clientPeerReady", Msg("none"))
  /\ hist' = Step(hist)
  /\ ClientStep
  /\ UNCHANGED <<pinResolve, wire>>

\* conn.on('open') of connectAsClient: the connection_request is sent
ClientOnOpen ==
  /\ client.connectionRef = "pending"
  /\ host.connectionRef = "open"
  /\ client' = updateState([client EXCEPT !.connectionRef = "open"],
                 [roomCode |-> RoomCode, remotePeerId |-> Text(normalizeRoomCode(Chars(RoomCode))),
                  state |-> "awaiting_approval"])
  /\ wire' = [wire EXCEPT !.toHost = Append(@, ConnectionRequest(ClientId))]
  /\ event' = Ev("clientOpen", Msg("none"))
  /\ hist' = Step(hist)
  /\ ClientStep
  /\ UNCHANGED pinResolve

\* case 'connection_approved'
OnConnectionApproved_ignored(h) == h
OnConnectionApproved(h) ==
  startHeartbeat(updateState(h, [state |-> "connected", isPinVerified |-> TRUE]))

\* case 'connection_denied'
OnConnectionDenied(h, message) ==
  updateState(h, [state |-> "error", error |-> message.payload.reason])

\* handlePinRequired: the promise `await onPinRequired()` waits for
Prompt(handler, attemptsRemaining) ==
  [stage |-> "prompt", handler |-> handler, attemptsRemaining |-> attemptsRemaining,
   pin |-> NULL]

\* case 'pin_required', the response to an entered PIN
PinRequiredResponse(h, pin) == PinAttempt(hashPin(pin), h.pinAttemptsRef + 1)

\* case 'pin_invalid', the response to an entered PIN
PinInvalidResponse_plain(attemptsRemaining, pin) ==
  PinAttempt(pin, MAX_PIN_ATTEMPTS - attemptsRemaining + 1)
PinInvalidResponse(attemptsRemaining, pin) ==
  PinAttempt(hashPin(pin), MAX_PIN_ATTEMPTS - attemptsRemaining + 1)

\* handleMessage of the client instance
ClientHandle(message) ==
  CASE message.type = "connection_approved" ->
         /\ client' = OnConnectionApproved(client)
         /\ UNCHANGED pinResolve
    [] message.type = "connection_denied" ->
         /\ client' = OnConnectionDenied(client, message)
         /\ UNCHANGED pinResolve
    [] message.type = "pin_required" ->
         /\ client' = updateState(client, [isPinRequired |-> TRUE])
         /\ pinResolve' = Prompt("pin_required", 0)
    [] message.type = "pin_verified" ->
         /\ client' = updateState(client, [isPinVerified |-> TRUE])
         /\ UNCHANGED pinResolve
    [] message.type = "pin_invalid" ->
         /\ pinResolve' = Prompt("pin_invalid", message.payload.attemptsRemaining)
         /\ UNCHANGED client
    [] message.type = "disconnect" ->
         /\ client' = OnDisconnect(client, {}).hook
         /\ UNCHANGED pinResolve
    [] OTHER ->
         UNCHANGED <<client, pinResolve>>

\* conn.on('data') of connectAsClient
ClientReceive ==
  /\ client.connectionRef = "open"
  /\ wire.toClient # <<>>
  /\ ClientHandle(Head(wire.toClient))
  /\ wire' = [wire EXCEPT !.toClient = Tail(@)]
  /\ event' = Ev("clientMessage", Head(wire.toClient))
  /\ hist' = Step(hist)
  /\ ClientStep

\* handlePinSubmit: the prompt resolves with the PIN, the handler goes on to
\* `await hashPin(pin)`
PinSubmit(pin) ==
  /\ pinResolve.stage = "prompt"
  /\ pinResolve' = [pinResolve EXCEPT !.stage = "hashing", !.pin = pin]
  /\ event' = Ev("pinSubmit", Msg("none"))
  /\ hist' = Step(hist)
  /\ ClientStep
  /\ UNCHANGED <<client, wire>>

\* the handler after `await hashPin(pin)`: sendMessage(response)
ClientPinHashed ==
  /\ pinResolve.stage = "hashing"
  /\ LET response == IF pinResolve.handler = "pin_required"
                       THEN PinRequiredResponse(client, pinResolve.pin)
                       ELSE PinInvalidResponse(pinResolve.attemptsRemaining, pinResolve.pin)
         out == Sending(client, <<response>>)
     IN /\ wire' = [wire EXCEPT !.toHost = @ \o out]
        /\ hist' = [Step(hist) EXCEPT !.attempts =
                      IF out = <<>> THEN @
                      ELSE Append(@, [entered |-> pinResolve.pin, message |-> response,
                                      handler |-> pinResolve.handler])]
  /\ pinResolve' = NoPrompt
  /\ event' = Ev("clientPinHashed", Msg("none"))
  /\ ClientStep
  /\ UNCHANGED client

\* handlePinCancel: the prompt resolves with null and disconnect() runs; the
\* suspended handler then finds no PIN (and, for pin_required, no connection)
PinCancel ==
  /\ pinResolve.stage = "prompt"
  /\ wire' = [wire EXCEPT !.toHost = @ \o Sending(client, <<Msg("disconnect")>>)]
  /\ LET c == cleanup(client, {}).hook
     IN client' = IF pinResolve.handler = "pin_required"
                    THEN updateState([c EXCEPT !.connectionInfo = HookInit.connectionInfo],
                                     [state |-> "idle", error |-> "PIN entry cancelled"])
                    ELSE [c EXCEPT !.connectionInfo = HookInit.connectionInfo]
  /\ pinResolve' = NoPrompt
  /\ event' = Ev("pinCancel", Msg("none"))
  /\ hist' = Step(hist)
  /\ ClientStep

\* conn.on('close') of connectAsClient, after the host closed the connection
ClientOnClose ==
  /\ client.connectionRef = "open"
  /\ host.connectionRef = NULL
  /\ wire.toClient = <<>>
  /\ client' = OnDisconnect(client, {}).hook
  /\ event' = Ev("clientClose", Msg("none"))
  /\ hist' = Step(hist)
  /\ ClientStep
  /\ UNCHANGED <<pinResolve, wire>>

\* conn.on('data') of connectAsHost with the next message of the client
HostDeliver ==
  /\ wire.toHost # <<>>
  /\ HostReceive(Head(wire.toHost))
  /\ wire' = [toHost |-> Tail(wire.toHost), toClient |-> wire.toClient \o sent']
  /\ UNCHANGED <<client, now, isPinSet, hasInitialized, settingPin, pinResolve, tx>>

\* peer.on('connection') for the connection the client instance opened
PairOnConnection ==
  /\ client.connectionRef = "pending"
  /\ HostOnConnection

(* ------------------------------------------------------------------ *)
(* SpecPair: the host and the client instance over one data connection *)
(* ------------------------------------------------------------------ *)
NextPair ==
  \/ HostConnect
  \/ HostRoomReady
  \/ ClientConnect
  \/ ClientPeerReady
  \/ PairOnConnection
  \/ ClientOnOpen
  \/ HostDeliver
  \/ ClientReceive
  \/ Approve
  \/ Deny
  \/ Elapse(ModalSteps, MaxPairAdvances)
  \/ SetPin(HostPin)
  \/ PinHashed
  \/ \E pin \in Pins : PinSubmit(pin)
  \/ ClientPinHashed
  \/ PinCancel
  \/ HostDisconnect
  \/ ClientOnClose

SpecPair == Init /\ [][NextPair]_vars

\* the event loop runs every callback that is due: a received message is handled
SpecPairLive ==
  SpecPair /\ WF_vars(HostDeliver) /\ WF_vars(ClientReceive)

(* ------------------------------------------------------------------ *)
(* useFileTransfer, sending side: sendFiles of the client's SenderView *)
(* ------------------------------------------------------------------ *)
\* a File the user selected: the id its metadata gets, and its size in bytes
\* (sizes stay far below MAX_FILE_SIZE and MAX_SESSION_SIZE)
FileSizes(id) == IF id = "f1" THEN {(MaxChunks - 1) * CHUNK_SIZE + 1} ELSE {0, 1}
PhotoName == <<"p", "h", "o", "t", "o", ".", "j", "p", "g">>
Files ==
  {[id |-> id, name |-> PhotoName, size |-> size, gib |-> 0] :
     id \in FileIds, size \in {0, 1, (MaxChunks - 1) * CHUNK_SIZE + 1}}
Selections ==
  {sel \in UNION {[1 .. n -> Files] : n \in 1 .. MaxFiles} :
     /\ \A i \in DOMAIN sel : sel[i].size \in FileSizes(sel[i].id)
     /\ \A i, j \in DOMAIN sel : i # j => sel[i].id # sel[j].id}

\* A byte count that may pass 2^31 is held as whole GiB plus bytes below one GiB;
\* File.size is file.gib GiB and file.size bytes.
GIB == 1073741824
sizeOf(file) == [gib |-> file.gib, bytes |-> file.size]
Greater(a, b) == a.gib > b.gib \/ (a.gib = b.gib /\ a.bytes > b.bytes)
Plus(a, b) ==
  [gib |-> a.gib + b.gib + ((a.bytes + b.bytes) \div GIB), bytes |-> (a.bytes + b.bytes) % GIB]
\* a byte count below one GiB is written as the integer
Number(n) == IF n.gib = 0 THEN n.bytes ELSE n

MAX_FILE_SIZE == [gib |-> 2, bytes |-> 0]
MAX_SESSION_SIZE == [gib |-> 10, bytes |-> 0]
BLOCKED_EXTENSIONS ==
  {<<".", "e", "x", "e">>, <<".", "b", "a", "t">>, <<".", "c", "m", "d">>,
   <<".", "c", "o", "m">>, <<".", "m", "s", "i">>, <<".", "s", "c", "r">>,
   <<".", "v", "b", "s">>, <<".", "v", "b", "e">>, <<".", "j", "s">>,
   <<".", "j", "s", "e">>, <<".", "w", "s">>, <<".", "w", "s", "f">>,
   <<".", "w", "s", "c">>, <<".", "w", "s", "h">>, <<".", "p", "s", "1">>,
   <<".", "p", "s", "m", "1">>, <<".", "p", "s", "d", "1">>, <<".", "s", "h">>,
   <<".", "b", "a", "s", "h">>, <<".", "z", "s", "h">>, <<".", "a", "p", "p">>,
   <<".", "d", "m", "g">>, <<".", "p", "k", "g">>, <<".", "a", "p", "k">>,
   <<".", "d", "e", "b">>, <<".", "r", "p", "m">>}

\* fileName.lastIndexOf('.'), as a position from 1; 0 when there is none
lastDot(fileName) ==
  IF \E i \in 1 .. Len(fileName) : fileName[i] = "."
    THEN CHOOSE i \in 1 .. Len(fileName) :
           /\ fileName[i] = "."
           /\ \A j \in (i + 1) .. Len(fileName) : fileName[j] # "."
    ELSE 0

getFileExtension(fileName) ==
  IF lastDot(fileName) = 0 THEN <<>>
  ELSE toLowerCase(slice(fileName, lastDot(fileName) - 1, Len(fileName)))

isBlockedExtension(fileName) == getFileExtension(fileName) \in BLOCKED_EXTENSIONS

\* a validateFile that checks the sizes only
validateFile_sizesOnly(file) ==
  /\ ~Greater(sizeOf(file), MAX_FILE_SIZE)
  /\ sizeOf(file) # [gib |-> 0, bytes |-> 0]

\* validateFile(file).isValid: no error was pushed (warnings do not count)
validateFile(file) ==
  /\ ~Greater(sizeOf(file), MAX_FILE_SIZE)
  /\ sizeOf(file) # [gib |-> 0, bytes |-> 0]
  /\ ~isBlockedExtension(file.name)

\* the chunk loop's chunk: file.slice(start, end).arrayBuffer()
ChunkData(file, chunkIndex) ==
  LET start == chunkIndex * CHUNK_SIZE
      end == IF start + CHUNK_SIZE < file.size THEN start + CHUNK_SIZE ELSE file.size
  IN Bytes(file.id, start, end)

\* the bytes of a whole file, chunk by chunk
FileContent(file) ==
  [k \in 1 .. totalChunksOf(file.size) |-> ChunkData(file, k - 1)]

TxStep ==
  /\ sent' = <<>>
  /\ UNCHANGED <<host, client, rateLimitStore, sessionStore, now, awaiting, pendingApproval,
                 timeRemaining, isExpired, isPinSet, hasInitialized, settingPin,
                 pinResolve, rx>>

\* An invocation of sendFiles keeps its local variables (validFiles, the loop
\* indexes, totalBytesTransferred, the fileProgress its closure captured) across
\* its awaits; the refs and the React state are shared by all invocations.  tx
\* holds the locals of the latest invocation and, in tx.earlier, those of an
\* invocation that was still suspended in an await when the latest was made.
LoopLocals ==
  {"pc", "validFiles", "fileIndex", "chunkIndex", "totalBytesTransferred",
   "closureFileProgress", "call"}
\* the hook as the earlier invocation sees it, and back
Swapped(t) ==
  [k \in DOMAIN t |->
     IF k \in LoopLocals THEN t.earlier[k]
     ELSE IF k = "earlier" THEN [j \in LoopLocals |-> t[j]]
     ELSE t[k]]
Loop(stale) == IF stale THEN Swapped(tx) ELSE tx
Back(stale, t) == IF stale THEN Swapped(t) ELSE t

\* the history of one sendFiles call after it passed `messages` to sendMessage
Emitting(h, messages) ==
  [h EXCEPT !.emitted = @ \o Sending(client, messages),
            !.sendFailed = @ \/ ~sendMessage(client, messages),
            !.afterFailure = @ \/ (h.sendFailed /\ sendMessage(client, messages)),
            !.afterCancel = @ \o (IF tx.cancelledRef THEN Sending(client, messages) ELSE <<>>)]

\* the same, of the invocation numbered `call`: an invocation that hands a
\* message to the channel after a later invocation did so interleaves with it
EmittingBy(call, h, messages) ==
  IF Sending(client, messages) = <<>> THEN Emitting(h, messages)
  ELSE [Emitting(h, messages) EXCEPT !.lastEmitter = call,
                                     !.interleaved = @ \/ call < h.lastEmitter]

\* handleSendFiles: sendFiles(files) up to the first `await validateFile(file)`,
\* called when no earlier invocation is suspended (SendFilesAgain is the call
\* made while one is).
SendFiles(files) ==
  /\ client.connectionInfo.state = "connected"
  /\ ~tx.isSending
  /\ tx.pc = "idle"
  /\ \A i \in DOMAIN files : files[i].id \notin hist.usedIds
  /\ tx' = [tx EXCEPT !.cancelledRef = FALSE, !.isSending = TRUE, !.pc = "validating",
                      !.speedSamplesRef = <<>>, !.lastSpeedUpdateRef = now,
                      !.lastBytesRef = 0,
                      !.validFiles = files, !.closureFileProgress = tx.fileProgress,
                      !.call = hist.calls + 1]
  /\ event' = Ev("sendFiles", Msg("none"))
  /\ hist' = [Step(hist) EXCEPT !.usedIds = @ \cup {files[i].id : i \in DOMAIN files},
                                !.emitted = <<>>, !.sendFailed = FALSE,
                                !.afterFailure = FALSE, !.afterCancel = <<>>,
                                !.atCancel = {}, !.reported = FALSE,
                                !.calls = @ + 1]
  /\ TxStep
  /\ UNCHANGED wire

\* the head of the file loop: file_metadata is sent and the chunk loop reaches
\* `await chunk.arrayBuffer()`
EnterFile(t, fileIndex) ==
  LET file == t.validFiles[fileIndex + 1]
  IN [updateFileProgress(t, file.id, [status |-> "transferring"])
        EXCEPT !.fileIndex = fileIndex, !.chunkIndex = 0, !.pc = "reading",
               !.batchProgress.currentFileId = file.id]

RECURSIVE sumSizes(_)
\* totalSize += file.size over the files
sumSizes(files) ==
  IF files = <<>> THEN [gib |-> 0, bytes |-> 0]
  ELSE Plus(sizeOf(Head(files)), sumSizes(Tail(files)))

\* sendFiles from the validation loop to the session size check: the files that
\* go on, their total size, the onError calls, and whether the batch is sent
sendFilesValidation(files) ==
  LET validFiles == SelectSeq(files, validateFile)
      rejected == SelectSeq(files, LAMBDA file : ~validateFile(file))
      failed == [i \in DOMAIN rejected |->
                   [error |-> "failed validation", name |-> rejected[i].name]]
      totalSize == sumSizes(validFiles)
  IN IF validFiles = <<>>
       THEN [validFiles |-> validFiles, totalSize |-> totalSize, proceeds |-> FALSE,
             errors |-> Append(failed, [error |-> "No valid files to send", name |-> <<>>])]
       ELSE IF Greater(totalSize, MAX_SESSION_SIZE)
         THEN [validFiles |-> validFiles, totalSize |-> totalSize, proceeds |-> FALSE,
               errors |-> Append(failed, [error |-> "exceeds session limit", name |-> <<>>])]
         ELSE [validFiles |-> validFiles, totalSize |-> totalSize, proceeds |-> TRUE,
               errors |-> failed]

\* sendFiles after validation: the progress is initialised and batch_start is
\* sent; then the first file's metadata, unless the transfer was cancelled
Validated(stale) ==
  /\ Loop(stale).pc = "validating"
  /\ LET t == Loop(stale)
         validation == sendFilesValidation(t.validFiles)
         validFiles == validation.validFiles
         t0 == [t EXCEPT !.errors = @ \cup {validation.errors[i].error :
                                               i \in DOMAIN validation.errors}]
     IN IF ~validation.proceeds
          THEN /\ tx' = Back(stale, [t0 EXCEPT !.isSending = FALSE, !.pc = "idle"])
               /\ hist' = Step(hist)
               /\ UNCHANGED wire
          ELSE LET totalSize == Number(validation.totalSize)
                   t1 == [t0 EXCEPT
                            !.validFiles = validFiles,
                            !.totalBytesTransferred = 0,
                            !.fileProgress = [f \in FileIds |->
                               IF \E i \in DOMAIN validFiles : validFiles[i].id = f
                                 THEN [status |-> IF validFiles[1].id = f
                                                    THEN "transferring" ELSE "pending",
                                       bytesTransferred |-> 0]
                                 ELSE NoProgress],
                            !.batchProgress =
                               [totalFiles |-> Len(validFiles), completedFiles |-> 0,
                                totalBytes |-> totalSize, bytesTransferred |-> 0,
                                overallPercentage |-> Percentage(0, 1),
                                currentFileId |-> validFiles[1].id,
                                status |-> "transferring"]]
                   messages == <<BatchStart(Len(validFiles), totalSize)>> \o
                               (IF t.cancelledRef THEN <<>>
                                ELSE <<FileMetadataMsg(validFiles[1].id, validFiles[1].size)>>)
               IN /\ tx' = Back(stale, IF t.cancelledRef
                                         THEN [t1 EXCEPT !.isSending = FALSE, !.pc = "idle"]
                                         ELSE EnterFile(t1, 0))
                  /\ wire' = [wire EXCEPT !.toHost = @ \o Sending(client, messages)]
                  /\ hist' = EmittingBy(t.call, Step(hist), messages)
  /\ event' = Ev("txValidated", Msg("none"))
  /\ TxStep

TxValidated == Validated(FALSE)

\* the chunk loop after `await generateChecksum(chunkData)`: the chunk is sent
\* and the progress updated, then `await new Promise(resolve => setTimeout(resolve, 1))`
ChunkRead(stale) ==
  /\ Loop(stale).pc = "reading"
  /\ LET t == Loop(stale)
         file == t.validFiles[t.fileIndex + 1]
         chunkData == ChunkData(file, t.chunkIndex)
         chunkMessage == FileChunk(file.id, t.chunkIndex, totalChunksOf(file.size),
                                   chunkData, generateChecksum(chunkData))
         bytesTransferred == chunkData.hi
         totalBytesTransferred ==
           t.totalBytesTransferred - t.closureFileProgress[file.id].bytesTransferred
             + bytesTransferred
     IN /\ hist' = EmittingBy(t.call, Step(hist), <<chunkMessage>>)
        /\ IF ~sendMessage(client, chunkMessage)
             THEN /\ tx' = Back(stale,
                               [updateFileProgress(t, file.id, [status |-> "failed"])
                                  EXCEPT !.isSending = FALSE, !.pc = "idle",
                                         !.errors = @ \cup {"Failed to send file chunk"}])
                  /\ UNCHANGED wire
             ELSE /\ tx' = Back(stale,
                               [updateFileProgress(
                                   calculateSpeed(t, totalBytesTransferred, now).hook,
                                   file.id, [bytesTransferred |-> bytesTransferred])
                                  EXCEPT !.pc = "delay",
                                         !.totalBytesTransferred = totalBytesTransferred,
                                         !.batchProgress.bytesTransferred = totalBytesTransferred,
                                         !.batchProgress.overallPercentage =
                                            Percentage(totalBytesTransferred,
                                                       t.batchProgress.totalBytes)])
                  /\ wire' = [wire EXCEPT !.toHost = Append(@, chunkMessage)]
  /\ event' = Ev("txChunk", Msg("none"))
  /\ TxStep

TxChunkRead == ChunkRead(FALSE)

\* a sender that emits the next file's metadata before the file_complete of
\* the file it just sent
AfterChunkLoop_metadataFirst(t) ==
  LET file == t.validFiles[t.fileIndex + 1]
      more == t.fileIndex + 1 < Len(t.validFiles) /\ ~t.cancelledRef
  IN (IF more
        THEN <<FileMetadataMsg(t.validFiles[t.fileIndex + 2].id,
                               t.validFiles[t.fileIndex + 2].size)>>
        ELSE IF ~t.cancelledRef THEN <<Msg("batch_complete")>> ELSE <<>>)
     \o <<FileComplete(file.id)>>

\* what sendFiles passes to sendMessage once the chunk loop of a file is left:
\* file_complete, then the next file's metadata or, after the last file and
\* unless cancelled, batch_complete
AfterChunkLoop(t) ==
  LET file == t.validFiles[t.fileIndex + 1]
      more == t.fileIndex + 1 < Len(t.validFiles) /\ ~t.cancelledRef
  IN <<FileComplete(file.id)>> \o
     (IF more
        THEN <<FileMetadataMsg(t.validFiles[t.fileIndex + 2].id,
                               t.validFiles[t.fileIndex + 2].size)>>
        ELSE IF ~t.cancelledRef THEN <<Msg("batch_complete")>> ELSE <<>>)

\* after the delay: the next chunk; or, when the chunk loop ended or was left
\* by `if (cancelledRef.current) break`, file_complete, then the next file's
\* metadata, or the end of the file loop with batch_complete unless cancelled
DelayDone(stale) ==
  /\ Loop(stale).pc = "delay"
  /\ LET t == Loop(stale)
         file == t.validFiles[t.fileIndex + 1]
     IN IF t.chunkIndex + 1 < totalChunksOf(file.size) /\ ~t.cancelledRef
          THEN /\ tx' = Back(stale, [t EXCEPT !.chunkIndex = @ + 1, !.pc = "reading"])
               /\ hist' = Step(hist)
               /\ UNCHANGED wire
          ELSE LET t1 == [updateFileProgress(t, file.id,
                             [status |-> "completed", bytesTransferred |-> file.size])
                            EXCEPT !.batchProgress.completedFiles = @ + 1]
                   more == t.fileIndex + 1 < Len(t.validFiles) /\ ~t.cancelledRef
                   messages == AfterChunkLoop(t)
               IN /\ tx' = Back(stale,
                              IF more THEN EnterFile(t1, t.fileIndex + 1)
                              ELSE IF ~t.cancelledRef
                                THEN [t1 EXCEPT !.batchProgress.status = "completed",
                                                !.batchProgress.overallPercentage = Percentage(1, 1),
                                                !.isSending = FALSE, !.pc = "idle"]
                                ELSE [t1 EXCEPT !.isSending = FALSE, !.pc = "idle"])
                  /\ wire' = [wire EXCEPT !.toHost = @ \o Sending(client, messages)]
                  /\ hist' = [EmittingBy(t.call, Step(hist), messages) EXCEPT
                                !.reported = @ \/ (~more /\ ~t.cancelledRef)]
  /\ event' = Ev("txDelay", Msg("none"))
  /\ TxStep

TxDelayDone == DelayDone(FALSE)

\* cancelTransfer, from the Cancel button SenderView shows while isSending
CancelTransfer ==
  /\ tx.isSending
  /\ tx' = [tx EXCEPT !.cancelledRef = TRUE, !.isSending = FALSE,
                      !.batchProgress.status = "cancelled",
                      !.fileProgress = [f \in FileIds |->
                         IF tx.fileProgress[f].status \in {"pending", "transferring"}
                           THEN [tx.fileProgress[f] EXCEPT !.status = "cancelled"]
                           ELSE tx.fileProgress[f]]]
  /\ event' = Ev("cancelTransfer", Msg("none"))
  /\ hist' = [Step(hist) EXCEPT
                !.atCancel = {f \in FileIds :
                                tx.fileProgress[f].status \in {"pending", "transferring"}}]
  /\ TxStep
  /\ UNCHANGED wire

\* handleSendFiles from the Send button, which SenderView shows whenever
\* isSending is false: after cancelTransfer that is at once, while the cancelled
\* invocation of sendFiles is still suspended in an await
SendFilesAgain(files) ==
  /\ client.connectionInfo.state = "connected"
  /\ ~tx.isSending
  /\ tx.pc # "idle"
  /\ tx.earlier.pc = "idle"
  /\ \A i \in DOMAIN files : files[i].id \notin hist.usedIds
  /\ tx' = [tx EXCEPT !.cancelledRef = FALSE, !.isSending = TRUE, !.pc = "validating",
                      !.speedSamplesRef = <<>>, !.lastSpeedUpdateRef = now,
                      !.lastBytesRef = 0,
                      !.validFiles = files, !.closureFileProgress = tx.fileProgress,
                      !.call = hist.calls + 1,
                      !.earlier = [j \in LoopLocals |-> tx[j]]]
  /\ event' = Ev("sendFiles", Msg("none"))
  /\ hist' = [Step(hist) EXCEPT !.usedIds = @ \cup {files[i].id : i \in DOMAIN files},
                                !.emitted = <<>>, !.sendFailed = FALSE,
                                !.afterFailure = FALSE, !.afterCancel = <<>>,
                                !.atCancel = {}, !.reported = FALSE,
                                !.calls = @ + 1]
  /\ TxStep
  /\ UNCHANGED wire

\* the continuations of the awaits of the earlier invocation
EarlierValidated == Validated(TRUE)
EarlierChunkRead == ChunkRead(TRUE)
EarlierDelayDone == DelayDone(TRUE)

\* the channel changes a byte of a chunk in flight
Corrupt ==
  /\ Cardinality(hist.tampered) < MaxCorruptions
  /\ \E i \in 1 .. Len(wire.toHost) :
       /\ wire.toHost[i].type = "file_chunk"
       /\ ~wire.toHost[i].payload.data.mutated
       /\ wire' = [wire EXCEPT !.toHost[i].payload.data.mutated = TRUE]
       /\ hist' = [Step(hist) EXCEPT !.tampered = @ \cup {wire.toHost[i].payload.fileId}]
  /\ event' = Ev("corrupt", Msg("none"))
  /\ UNCHANGED tx
  /\ TxStep

(* ------------------------------------------------------------------ *)
(* SpecTransfer: an approved client sends files to the host            *)
(* ------------------------------------------------------------------ *)
NextTransfer ==
  \/ HostConnect
  \/ HostRoomReady
  \/ ClientConnect
  \/ ClientPeerReady
  \/ PairOnConnection
  \/ ClientOnOpen
  \/ HostDeliver
  \/ ClientReceive
  \/ Approve
  \/ \E files \in Selections : SendFiles(files)
  \/ TxValidated
  \/ TxChunkRead
  \/ TxDelayDone
  \/ CancelTransfer
  \/ Corrupt
  \/ Verified
  \/ HostDisconnect

SpecTransfer == Init /\ [][NextTransfer]_vars

(* ------------------------------------------------------------------ *)
(* SpecChunks: the receiver of one file whose file_chunk events arrive *)
(* in any order, some of them more than once                           *)
(* ------------------------------------------------------------------ *)
ChunkedFile == [id |-> "f1", size |-> (MaxChunks - 1) * CHUNK_SIZE + 1]

\* what the channel may hand over next: the stream of ChunkedFile with its
\* file_chunk events in any order and repeated
ChunkMessages ==
  LET held == rx.receivedChunksRef[ChunkedFile.id] # 0
  IN (IF rx.batchProgress.status = "idle" /\ rx.delivered = <<>>
        THEN {BatchStart(1, ChunkedFile.size)} ELSE {})
     \cup (IF rx.isReceiving /\ ~held /\ rx.delivered = <<>>
           THEN {FileMetadataMsg(ChunkedFile.id, ChunkedFile.size)} ELSE {})
     \cup (IF held /\ Len(hist.chunksIn) < MaxArrivals
           THEN {FileChunk(ChunkedFile.id, k, totalChunksOf(ChunkedFile.size),
                           ChunkData(ChunkedFile, k),
                           generateChecksum(ChunkData(ChunkedFile, k))) :
                   k \in 0 .. (totalChunksOf(ChunkedFile.size) - 1)}
           ELSE {})
     \cup (IF held THEN {FileComplete(ChunkedFile.id)} ELSE {})

NextChunks ==
  \/ HostConnect
  \/ HostRoomReady
  \/ HostOnConnection
  \/ PeerSends(ChunkMessages)
  \/ Verified

SpecChunks == Init /\ [][NextChunks]_vars

(* ------------------------------------------------------------------ *)
(* SpecSession: the session registry under createSession,              *)
(* isSessionValid and destroySession calls at any time                 *)
(* ------------------------------------------------------------------ *)
\* the codes the registry is called with: two rooms, one of them also as typed
SessionCodes ==
  {<<"A", "B", "3", "D", "-", "E", "F", "7", "H">>,
   <<"a", "b", "3", "d", "e", "f", "7", "h">>,
   <<"Z", "Z", "Z", "Z", "-", "9", "9", "9", "9">>}

\* the call and what it returned
Called(name, code, result) ==
  [kind |-> name, msg |-> [type |-> "call", payload |-> [code |-> code, result |-> result]]]

SessionStep ==
  /\ sent' = <<>>
  /\ hist' = Step(hist)
  /\ UNCHANGED <<host, client, rateLimitStore, now, awaiting, pendingApproval,
                 timeRemaining, isExpired, isPinSet, hasInitialized, settingPin,
                 pinResolve, wire, rx, tx>>

SessionCreate(code) ==
  /\ sessionStore' = createSession(sessionStore, code, now)
  /\ event' = Called("createSession", code, TRUE)
  /\ SessionStep

SessionLookup(code) ==
  /\ sessionStore' = afterIsSessionValid(sessionStore, code, now)
  /\ event' = Called("isSessionValid", code, isSessionValid(sessionStore, code, now))
  /\ SessionStep

SessionDestroy(code) ==
  /\ sessionStore' = destroySession(sessionStore, code)
  /\ event' = Called("destroySession", code, TRUE)
  /\ SessionStep

SessionSteps == {1, ROOM_CODE_EXPIRY_MS}

NextSession ==
  \/ \E code \in SessionCodes : SessionCreate(code)
  \/ \E code \in SessionCodes : SessionLookup(code)
  \/ \E code \in SessionCodes : SessionDestroy(code)
  \/ Elapse(SessionSteps, MaxSessionAdvances)

SpecSession == Init /\ [][NextSession]_vars

(* ------------------------------------------------------------------ *)
(* SpecValidate: sendFiles with the files a user can select, up to the *)
(* first message of the batch                                          *)
(* ------------------------------------------------------------------ *)
\* the kinds of file a selection is made of: its name and its size
CandidateKinds ==
  {[name |-> PhotoName, size |-> 1, gib |-> 0],
   [name |-> PhotoName, size |-> 0, gib |-> 0],
   [name |-> <<"d", "i", "s", "k", ".", "i", "s", "o">>, size |-> 0, gib |-> 2],
   [name |-> <<"d", "i", "s", "k", ".", "i", "s", "o">>, size |-> 1, gib |-> 2],
   [name |-> <<"s", "e", "t", "u", "p", ".", "E", "X", "E">>, size |-> 1, gib |-> 0]}

\* a selection: generateFileId gives each file an id of its own
CandidateBatches ==
  {[i \in DOMAIN kinds |-> [id |-> i, name |-> kinds[i].name, size |-> kinds[i].size,
                      gib |-> kinds[i].gib]] :
     kinds \in UNION {[1 .. n -> CandidateKinds] : n \in 0 .. MaxCandidates}}

\* sendFiles(files) until it returns or reaches the first await of the chunk loop
\* (no cancelTransfer in between): what it handed to sendMessage, by type and
\* file id, what it reported, and isSending
sendFilesOutcome(files) ==
  IF files = <<>>
    THEN [emitted |-> <<>>, errors |-> <<>>, isSending |-> FALSE]
    ELSE LET validation == sendFilesValidation(files)
         IN IF ~validation.proceeds
              THEN [emitted |-> <<>>, errors |-> validation.errors, isSending |-> FALSE]
              ELSE [emitted |-> <<[type |-> "batch_start",
                                   payload |-> [totalFiles |-> Len(validation.validFiles),
                                                totalSize |-> Number(validation.totalSize)]],
                                  [type |-> "file_metadata",
                                   payload |-> [id |-> validation.validFiles[1].id]]>>,
                    errors |-> validation.errors, isSending |-> TRUE]

ValidateBatch ==
  /\ event.kind = "init"
  /\ \E files \in CandidateBatches :
       event' = Called("sendFiles", files, sendFilesOutcome(files))
  /\ UNCHANGED sessionStore
  /\ SessionStep

NextValidate == ValidateBatch

SpecValidate == Init /\ [][NextValidate]_vars

(* ------------------------------------------------------------------ *)
(* SpecNames: sanitizeFileName on the names a file_metadata can carry  *)
(* ------------------------------------------------------------------ *)
NameCharacters == {"a", ".", "/", "<", " "}
Filled(n) == [i \in 1 .. n |-> "a"]
\* short names of every make-up, and names longer than MAX_NAME_LENGTH without
\* an extension, with a short one and with a long one
NameInputs ==
  UNION {[1 .. n -> NameCharacters] : n \in 0 .. MaxNameLength}
    \cup {Filled(MAX_NAME_LENGTH + 1),
          Filled(MAX_NAME_LENGTH) \o <<".", "t", "x", "t">>,
          <<"a", ".">> \o Filled(MAX_NAME_LENGTH + 1),
          <<"\t", "a", "\n">>}

SanitizeName ==
  /\ event.kind = "init"
  /\ \E name \in NameInputs : event' = Called("sanitizeFileName", name, sanitizeFileName(name))
  /\ UNCHANGED sessionStore
  /\ SessionStep

NextNames == SanitizeName

SpecNames == Init /\ [][NextNames]_vars

(* ------------------------------------------------------------------ *)
(* SpecCodes: room codes as the host issues them and as a user types   *)
(* them                                                                *)
(* ------------------------------------------------------------------ *)
\* values of the random bytes: the first and the last index of the alphabet,
\* the first value that wraps around, and the largest byte
ByteSamples == {0, Len(ROOM_CODE_ALPHABET) - 1, Len(ROOM_CODE_ALPHABET), 255}

\* the codes a user's input is a spelling of: a full code and a short one
CodeBases ==
  {<<"A", "B", "3", "D", "E", "F", "7", "H">>, <<"A", "B", "3", "D">>}

RECURSIVE Spelled(_, _, _, _)
\* `base` from position i on, with the letters at the positions of `lowered`
\* in lower case and a dash after each position of `dashes`
Spelled(base, lowered, dashes, i) ==
  IF i > Len(base) THEN <<>>
  ELSE (IF i = 0 THEN <<>>
        ELSE IF i \in lowered THEN toLowerCase(<<base[i]>>) ELSE <<base[i]>>)
       \o (IF i \in dashes THEN <<"-">> ELSE <<>>)
       \o Spelled(base, lowered, dashes, i + 1)

\* the host issues a code: generateSecureRoomCode().  A run observes one call.
GenerateCode ==
  /\ event.kind = "init"
  /\ \E array \in [1 .. ROOM_CODE_LENGTH -> ByteSamples] :
       event' = Called("generateSecureRoomCode", generateSecureRoomCode(array), TRUE)
  /\ UNCHANGED sessionStore
  /\ SessionStep

\* a session exists for the displayed form of a code and a user types a
\* spelling of that code: the lookup and the peer id it leads to
EnterCode ==
  /\ event.kind = "init"
  /\ \E base \in CodeBases, lowered \in SUBSET (1 .. MaxTyped), dashes \in SUBSET (0 .. MaxTyped) :
       LET issued == formatRoomCode(base)
           typed == Spelled(base, lowered, dashes, 0)
           sessions == createSession({}, issued, now)
       IN /\ sessionStore' = sessions
          /\ event' = [kind |-> "enterCode",
                        msg |-> [type |-> "call",
                                 payload |-> [code |-> typed, issued |-> issued,
                                              result |-> isSessionValid(sessions, typed, now),
                                              hostPeerId |-> hostPeerId(typed),
                                              fullPeerId |-> fullPeerId(normalizeRoomCode(issued))]]]
  /\ SessionStep

NextCodes ==
  \/ GenerateCode
  \/ EnterCode

SpecCodes == Init /\ [][NextCodes]_vars

(* ------------------------------------------------------------------ *)
(* SpecExpiry: the host and a peer that may send its request more than *)
(* an hour after the room was opened                                   *)
(* ------------------------------------------------------------------ *)
ExpirySteps == {15000, ROOM_CODE_EXPIRY_MS + 1}

NextExpiry ==
  \/ HostConnect
  \/ HostRoomReady
  \/ HostOnConnection
  \/ PeerSends(Requests({ClientId}, MaxRequests))
  \/ Approve
  \/ Deny
  \/ Elapse(ExpirySteps, MaxAdvances)
  \/ HostDisconnect

SpecExpiry == Init /\ [][NextExpiry]_vars

(* ------------------------------------------------------------------ *)
(* SpecReconnect: SpecPair where the user of the client connects again *)
(* after an error or a disconnection                                   *)
(* ------------------------------------------------------------------ *)
NextReconnect ==
  \/ NextPair
  \/ ClientReconnect

SpecReconnect == Init /\ [][NextReconnect]_vars

(* ------------------------------------------------------------------ *)
(* SpecTeardown: SpecPair where either remote end may also send        *)
(* 'disconnect' on the open connection at any time                     *)
(* ------------------------------------------------------------------ *)
\* the endpoint connected to the host sends 'disconnect'
DisconnectToHost ==
  /\ hist.nDisc < MaxRemoteDisconnects
  /\ host.connectionRef = "open"
  /\ wire' = [wire EXCEPT !.toHost = Append(@, Msg("disconnect"))]
  /\ hist' = [Step(hist) EXCEPT !.nDisc = @ + 1]
  /\ event' = Ev("remote", Msg("disconnect"))
  /\ sent' = <<>>
  /\ UNCHANGED <<host, client, rateLimitStore, sessionStore, now, awaiting, pendingApproval,
                 timeRemaining, isExpired, isPinSet, hasInitialized, settingPin,
                 pinResolve, rx, tx>>

\* the endpoint connected to the client sends 'disconnect'
DisconnectToClient ==
  /\ hist.nDisc < MaxRemoteDisconnects
  /\ client.connectionRef = "open"
  /\ wire' = [wire EXCEPT !.toClient = Append(@, Msg("disconnect"))]
  /\ hist' = [Step(hist) EXCEPT !.nDisc = @ + 1]
  /\ event' = Ev("remote", Msg("disconnect"))
  /\ sent' = <<>>
  /\ UNCHANGED <<host, client, rateLimitStore, sessionStore, now, awaiting, pendingApproval,
                 timeRemaining, isExpired, isPinSet, hasInitialized, settingPin,
                 pinResolve, rx, tx>>

NextTeardown ==
  \/ NextPair
  \/ DisconnectToHost
  \/ DisconnectToClient

SpecTeardown == Init /\ [][NextTeardown]_vars

(* ------------------------------------------------------------------ *)
(* SpecSend: the sending side of SpecTransfer over a channel that       *)
(* delivers every chunk unchanged                                      *)
(* ------------------------------------------------------------------ *)
NextSend ==
  \/ HostConnect
  \/ HostRoomReady
  \/ ClientConnect
  \/ ClientPeerReady
  \/ PairOnConnection
  \/ ClientOnOpen
  \/ HostDeliver
  \/ ClientReceive
  \/ Approve
  \/ \E files \in Selections : SendFiles(files)
  \/ TxValidated
  \/ TxChunkRead
  \/ TxDelayDone
  \/ CancelTransfer
  \/ Verified
  \/ HostDisconnect

SpecSend == Init /\ [][NextSend]_vars

(* ------------------------------------------------------------------ *)
(* SpecHosting: the host's room from its first connect attempt, with   *)
(* the automatic retries, to disconnect or close                       *)
(* ------------------------------------------------------------------ *)
HostingMessages == Requests({ClientId}, 1) \cup {Msg("disconnect")}

NextHosting ==
  \/ HostConnect
  \/ HostAttemptFailed
  \/ HostRoomReady
  \/ HostOnConnection
  \/ PeerSends(HostingMessages)
  \/ Approve
  \/ Deny
  \/ HostOnClose
  \/ HostDisconnect

SpecHosting == Init /\ [][NextHosting]_vars

(* ------------------------------------------------------------------ *)
(* SpecTwoPeers: two peers open a data connection to the host, and     *)
(* each sends its handshake messages on its own connection             *)
(* ------------------------------------------------------------------ *)
NextTwoPeers ==
  \/ HostConnect
  \/ HostRoomReady
  \/ HostOnConnection
  \/ HostOnSecondConnection
  \/ \E peer \in PeerIds :
       \E message \in Requests({peer}, MaxRequests) \cup PinAttempts(1) :
         HostReceiveOn(peer, message)
  \/ Approve
  \/ Deny
  \/ SetPin(HostPin)
  \/ PinHashed

SpecTwoPeers == Init /\ [][NextTwoPeers]_vars

(* ------------------------------------------------------------------ *)
(* SpecClose: a transfer whose data connection may close at any time   *)
(* ------------------------------------------------------------------ *)
NextClose ==
  \/ NextSend
  \/ HostOnClose
  \/ ClientOnClose

SpecClose == Init /\ [][NextClose]_vars

(* ------------------------------------------------------------------ *)
(* SpecHeartbeat: Spec with the heartbeat timer's callback and errors  *)
(* of the data connection                                              *)
(* ------------------------------------------------------------------ *)
NextHeartbeat ==
  \/ Next
  \/ HostHeartbeat
  \/ HostOnError

SpecHeartbeat == Init /\ [][NextHeartbeat]_vars

(* ------------------------------------------------------------------ *)
(* SpecSignal: the host's signalling peer drops and reconnects while a *)
(* peer sends PIN attempts on its data connection                      *)
(* ------------------------------------------------------------------ *)
NextSignal ==
  \/ HostConnect
  \/ HostRoomReady
  \/ HostOnConnection
  \/ PeerSends(PinAttempts(MaxPinAttempts))
  \/ HostOnClose
  \/ SignalDisconnected
  \/ ReconnectTimer

SpecSignal == Init /\ [][NextSignal]_vars

(* ------------------------------------------------------------------ *)
(* SpecSpeed: the speed tracker of the sending hook, reset as at the   *)
(* head of sendFiles and called as by the chunk loop, with the time    *)
(* between two calls and the bytes gained drawn from small sets        *)
(* ------------------------------------------------------------------ *)
SpeedGaps == {250, 500}
ByteGains == {0, 300}

\* speedSamplesRef.current = []; lastSpeedUpdateRef.current = Date.now();
\* lastBytesRef.current = 0 of sendFiles (and of case 'batch_start')
TrackerReset ==
  /\ tx' = [tx EXCEPT !.speedSamplesRef = <<>>, !.lastSpeedUpdateRef = now,
                      !.lastBytesRef = 0]
  /\ event' = Ev("trackerReset", Msg("none"))
  /\ sent' = <<>>
  /\ hist' = [Step(hist) EXCEPT !.speedTotal = 0]
  /\ UNCHANGED <<host, client, rateLimitStore, sessionStore, now, awaiting, pendingApproval,
                 timeRemaining, isExpired, isPinSet, hasInitialized, settingPin,
                 pinResolve, wire, rx>>

\* calculateSpeed(totalBytesTransferred), `gap` ms after the previous call and
\* with `gain` more bytes
TrackerCall ==
  /\ hist.speedCalls < MaxSpeedCalls
  /\ \E gap \in SpeedGaps, gain \in ByteGains :
       LET total == hist.speedTotal + gain
           c == calculateSpeed(tx, total, now + gap)
       IN /\ now' = now + gap
          /\ tx' = c.hook
          /\ event' = Called("calculateSpeed", total, c.speed)
          /\ hist' = [Step(hist) EXCEPT !.speedCalls = @ + 1, !.speedTotal = total]
  /\ sent' = <<>>
  /\ UNCHANGED <<host, client, rateLimitStore, sessionStore, awaiting, pendingApproval,
                 timeRemaining, isExpired, isPinSet, hasInitialized, settingPin,
                 pinResolve, wire, rx>>

NextSpeed ==
  \/ TrackerReset
  \/ TrackerCall

SpecSpeed == Init /\ [][NextSpeed]_vars

(* ------------------------------------------------------------------ *)
(* SpecResend: SpecSend with a sendFiles made while the cancelled one  *)
(* is still suspended                                                  *)
(* ------------------------------------------------------------------ *)
NextResend ==
  \/ NextSend
  \/ \E files \in Selections : SendFilesAgain(files)
  \/ EarlierValidated
  \/ EarlierChunkRead
  \/ EarlierDelayDone

SpecResend == Init /\ [][NextResend]_vars

(* ================================================================== *)
(* Properties                                                          *)
(* ================================================================== *)
SentTypes == {sent[i].type : i \in 1 .. Len(sent)}
Received(type) == event.kind = "message" /\ event.msg.type = type

\* C1 (as claimed): the host's state is 'connected' only after the approval
\* provider resolved true for a connection_request on the current connection.
C1_ConnectedOnlyAfterApproval ==
  host.connectionInfo.state = "connected" => hist.approved # {}

\* C2 (as claimed): the host processes transfer messages only while its state is
\* 'connected', and a file is delivered only for a peer that was approved.
C2_TransferOnlyWhenConnected ==
  /\ (event.kind = "message" /\ event.msg.type \in TransferTypes)
        => host.connectionInfo.state = "connected"
  /\ rx.delivered # <<>> => hist.approved # {}

\* C6 (as claimed): once the host has received MAX_PIN_ATTEMPTS mismatching
\* pin_attempt messages on a session with a PIN, the session is torn down and no
\* further PIN attempt is evaluated, whatever attemptNumber the messages carry.
C6_ThreeFailedAttemptsDeny ==
  hist.failedPins >= MAX_PIN_ATTEMPTS
    => /\ host.connectionRef = NULL
       /\ host.pinHashRef = NULL
       /\ hist.failedPins = MAX_PIN_ATTEMPTS

C9_UndecidedRequestAutoDenied ==
  \A u \in hist.undecided : now - u.presentedAt < APPROVAL_TIMEOUT_MS

\* the requests of peer p that arrived less than a window before now
RecentRequests(p) ==
  {i \in 1 .. Len(hist.requests[p]) :
     now - hist.requests[p][i] < CONNECTION_ATTEMPT_WINDOW_MS}

NoPinApproval == event.kind = "approve" /\ hist.pinAtApproval = NULL

PinTypes == {"pin_required", "pin_attempt", "pin_verified", "pin_invalid"}
InFlight ==
  {wire.toHost[i] : i \in 1 .. Len(wire.toHost)}
    \cup {wire.toClient[i] : i \in 1 .. Len(wire.toClient)}

\* the client's state changes along idle -> connecting -> awaiting_approval -> connected
ClientPath ==
  LET old == client.connectionInfo.state
      new == client'.connectionInfo.state
  IN old # new =>
       /\ new = "connected" => old = "awaiting_approval"
       /\ new = "awaiting_approval" => old = "connecting"
       /\ new = "connecting" => old = "idle"

\* C8: on a session without a PIN, when the provider resolves true the host sends
\* connection_approved and is 'connected', the client then becomes 'connected',
\* having gone idle -> connecting -> awaiting_approval -> connected, and no PIN
\* message is exchanged.
C8_ApprovalWithoutPinConnects ==
  /\ [](NoPinApproval => /\ sent = <<Msg("connection_approved")>>
                         /\ host.connectionInfo.state = "connected")
  /\ NoPinApproval ~> (client.connectionInfo.state = "connected")
  /\ [][ClientPath]_vars
  /\ []((hist.approved # {} /\ hist.pinAtApproval = NULL)
          => /\ hist.attempts = <<>>
             /\ pinResolve.stage = "none"
             /\ \A m \in InFlight : m.type \notin PinTypes
             /\ SentTypes \cap PinTypes = {})

C8_Witness ==
  /\ hist.approved = {ClientId}
  /\ hist.pinAtApproval = NULL
  /\ host.connectionInfo.state = "connected"
  /\ client.connectionInfo.state = "connected"
  /\ event.kind = "clientMessage"
  /\ event.msg = Msg("connection_approved")

\* C10: every pin_attempt the client sends, for the first prompt and for every
\* retry, carries hashPin of the PIN that was entered and never the PIN itself,
\* and what the host holds and compares with is a hash.
C10_PinAttemptCarriesHash ==
  /\ \A i \in 1 .. Len(hist.attempts) :
       LET a == hist.attempts[i]
       IN /\ a.message.type = "pin_attempt"
          /\ DOMAIN a.message.payload = {"hashedPin", "attemptNumber"}
          /\ a.message.payload.hashedPin = hashPin(a.entered)
          /\ a.message.payload.hashedPin \notin Pins
  /\ \A m \in InFlight : m.type = "pin_attempt" => m.payload.hashedPin \notin Pins
  /\ host.pinHashRef \in {NULL} \cup {hashPin(pin) : pin \in Pins}
  /\ (Received("pin_attempt") /\ client.peerRef # NULL)
       => event.msg.payload.hashedPin \in {hashPin(pin) : pin \in Pins}

C10_Witness ==
  /\ Len(hist.attempts) >= 2
  /\ hist.attempts[1].handler = "pin_required"
  /\ hist.attempts[2].handler = "pin_invalid"
  /\ Received("pin_attempt")
  /\ event.msg = hist.attempts[2].message

\* the files the receiver handed to onFileReceived
Delivered == {rx.delivered[i] : i \in 1 .. Len(rx.delivered)}

\* C3 (as claimed): a file with a received chunk whose checksum did not verify is
\* reported as corrupted and is never marked 'completed' nor delivered.
C3_CorruptFileNeverCompleted ==
  \A f \in hist.detected :
    /\ "File corruption detected" \in rx.errors
    /\ rx.fileProgress[f].status # "completed"
    /\ \A d \in Delivered : d.metadata.id # f

\* C4 (as claimed): whatever the order of message arrivals and checksum
\* verification completions, a delivered file whose chunks all arrived unchanged
\* holds exactly the bytes of the file that was sent.
C4_DeliveredEqualsSent ==
  \A d \in Delivered :
    d.metadata.id \notin hist.tampered
      => d.blob = FileContent([id |-> d.metadata.id, size |-> d.metadata.size])

\* the sum of the per-file bytesTransferred of a useFileTransfer instance
RECURSIVE SumProgress(_, _)
SumProgress(u, S) ==
  IF S = {} THEN 0
  ELSE LET f == CHOOSE x \in S : TRUE
       IN u.fileProgress[f].bytesTransferred + SumProgress(u, S \ {f})

\* C11: on the sender and on the receiver, whenever the progress is observed,
\* the batch's bytesTransferred equals the sum of the bytesTransferred of the
\* files of the batch.
C11_BatchBytesIsSumOfFiles ==
  /\ tx.batchProgress.bytesTransferred = SumProgress(tx, FileIds)
  /\ rx.batchProgress.bytesTransferred = SumProgress(rx, FileIds)

\* a step of a file's status: none, the entry appears or is dropped with its
\* Map, pending to transferring or to a final status, transferring to a final status
Forward(a, b) ==
  \/ a = b
  \/ a = NULL
  \/ b = NULL
  \/ a = "pending" /\ b \in {"transferring", "completed", "failed", "cancelled"}
  \/ a = "transferring" /\ b \in {"completed", "failed", "cancelled"}

\* C12: on both sides a file's status only moves forward, pending, then
\* transferring, then completed, failed or cancelled: it never returns to
\* pending and a final status never changes, whatever sendFiles steps,
\* cancelTransfer calls and incoming transfer messages occur.
C12_StatusOnlyMovesForward ==
  [][\A f \in FileIds :
       /\ Forward(tx.fileProgress[f].status, tx.fileProgress'[f].status)
       /\ Forward(rx.fileProgress[f].status, rx.fileProgress'[f].status)]_vars

\* C13: on the sender and on the receiver, the batch's overallPercentage is
\* 100 only when file_complete has occurred for every file of the batch (sent
\* by the sender, processed by the receiver).
C13_HundredOnlyAfterEveryFileComplete ==
  /\ ReachedHundred(tx.batchProgress.overallPercentage)
        => tx.batchProgress.completedFiles = tx.batchProgress.totalFiles
  /\ ReachedHundred(rx.batchProgress.overallPercentage)
        => rx.batchProgress.completedFiles = rx.batchProgress.totalFiles

\* what identifies a transfer message in the stream: its type, its file and
\* its chunk index
Shape(message) ==
  CASE message.type = "file_metadata" -> <<"file_metadata", message.payload.id, 0>>
    [] message.type = "file_chunk" ->
         <<"file_chunk", message.payload.fileId, message.payload.chunkIndex>>
    [] message.type = "file_complete" -> <<"file_complete", message.payload.fileId, 0>>
    [] OTHER -> <<message.type, NULL, 0>>

\* the stream of one file: metadata, chunks 0 .. totalChunks - 1, file_complete
FileStream(file) ==
  <<<<"file_metadata", file.id, 0>>>>
    \o [k \in 1 .. totalChunksOf(file.size) |-> <<"file_chunk", file.id, k - 1>>]
    \o <<<<"file_complete", file.id, 0>>>>

RECURSIVE FileStreams(_)
FileStreams(files) ==
  IF files = <<>> THEN <<>> ELSE FileStream(Head(files)) \o FileStreams(Tail(files))

\* the stream of a batch of valid files, in input order
BatchStream(files) ==
  <<<<"batch_start", NULL, 0>>>> \o FileStreams(files) \o <<<<"batch_complete", NULL, 0>>>>

\* the current sendFiles call was neither cancelled nor refused by the channel
Uninterrupted == hist.calls > 0 /\ ~tx.cancelledRef /\ ~hist.sendFailed

\* C14: the messages an uninterrupted sendFiles call emits are, in this order,
\* batch_start, then for each valid file in input order its file_metadata, its
\* chunks 0, 1, ... totalChunks - 1 and its file_complete, then batch_complete:
\* at any moment what was emitted is the beginning of that stream, and all of
\* it once the call has returned.
C14_StreamOrder ==
  LET validFiles == SelectSeq(tx.validFiles, validateFile)
      expected == IF validFiles = <<>> THEN <<>> ELSE BatchStream(validFiles)
      emitted == [i \in 1 .. Len(hist.emitted) |-> Shape(hist.emitted[i])]
  IN Uninterrupted =>
       /\ Len(emitted) <= Len(expected)
       /\ emitted = SubSeq(expected, 1, Len(emitted))
       /\ tx.pc = "idle" => emitted = expected

\* an uninterrupted call sent two files, one of them of several chunks, and returned
C14_Witness ==
  /\ Uninterrupted
  /\ tx.pc = "idle"
  /\ hist.reported
  /\ Len(tx.validFiles) = 2
  /\ \E i \in 1 .. 2 : totalChunksOf(tx.validFiles[i].size) > 1
  /\ hist.emitted[Len(hist.emitted)].type = "batch_complete"

\* C15: when sendMessage returned false for a message of a batch that was not
\* cancelled, the sender hands no further message of the batch to the channel
\* and does not report the transfer complete, and once sendFiles has returned
\* the file that was being sent is 'failed' and the error was reported.
C15_SendFailureAbortsBatch ==
  hist.sendFailed /\ ~tx.cancelledRef =>
    /\ ~hist.afterFailure
    /\ ~hist.reported
    /\ tx.pc = "idle" =>
          /\ "Failed to send file chunk" \in tx.errors
          /\ tx.batchProgress.currentFileId # NULL
          /\ tx.fileProgress[tx.batchProgress.currentFileId].status = "failed"

\* C16: after cancelTransfer during a send the sender hands no further message
\* of the batch to the channel, except a chunk that was being read when the
\* transfer was cancelled, and once sendFiles has returned every file that was
\* pending or transferring at that moment is 'cancelled'.
C16_CancelStopsBatch ==
  tx.cancelledRef =>
    /\ Len(hist.afterCancel) <= 1
    /\ \A i \in 1 .. Len(hist.afterCancel) : hist.afterCancel[i].type = "file_chunk"
    /\ tx.pc = "idle" => \A f \in hist.atCancel : tx.fileProgress[f].status = "cancelled"

\* what cleanup() leaves of a hook instance
TornDown(h) ==
  /\ h.heartbeatIntervalRef = NULL
  /\ h.connectionRef = NULL
  /\ h.peerRef = NULL
  /\ h.roomCodeRef = NULL
  /\ h.pinHashRef = NULL
  /\ h.pinAttemptsRef = 0

\* C17: when the host or the client instance has handled a 'disconnect'
\* message, in whatever state it was, its heartbeat timer is stopped, its
\* connection closed, its peer destroyed, its PIN hash and attempt counter
\* cleared, the host's session destroyed, and its state is 'disconnected'.
C17_DisconnectTearsDown ==
  /\ event.kind = "message" /\ event.msg.type = "disconnect" =>
        /\ TornDown(host)
        /\ \A s \in sessionStore : s.roomCode # normalizeRoomCode(Chars(RoomCode))
        /\ host.connectionInfo.state = "disconnected"
  /\ event.kind = "clientMessage" /\ event.msg.type = "disconnect" =>
        /\ TornDown(client)
        /\ client.connectionInfo.state = "disconnected"

\* the client handled 'disconnect' after the host had handled one
C17_Witness ==
  /\ event.kind = "clientMessage"
  /\ event.msg.type = "disconnect"
  /\ client.connectionInfo.state = "disconnected"
  /\ host.connectionInfo.state = "disconnected"
  /\ hist.nDisc = 2

\* the callbacks that are an incoming message, a channel event or a timer
PassiveEvents ==
  {"message", "clientMessage", "connection", "clientOpen", "close", "clientClose", "time"}

\* C18: once the state of an instance is 'error' or 'disconnected', no incoming
\* message, channel event or timer changes it.
C18_TerminalStateStays ==
  [][event'.kind \in PassiveEvents =>
       /\ host.connectionInfo.state \in {"error", "disconnected"}
            => host'.connectionInfo.state = host.connectionInfo.state
       /\ client.connectionInfo.state \in {"error", "disconnected"}
            => client'.connectionInfo.state = client.connectionInfo.state]_vars

\* C19: when the client's connect() is called in state 'error' or
\* 'disconnected', whatever produced that state, the state becomes 'connecting'
\* and a new peer is being opened.
C19_ConnectRebuilds ==
  event.kind = "clientReconnect" =>
    /\ client.connectionInfo.state = "connecting"
    /\ client.isConnectingRef

\* C20: a connection_request that reaches the host after the expiresAt of the
\* room's session is not approved and does not lead to 'connected': the
\* request the host approved arrived while isSessionValid held.
C20_ExpiredCodeNotApproved ==
  hist.approvedAt # -1 =>
    \A s \in sessionStore :
      s.roomCode = normalizeRoomCode(Chars(RoomCode)) => ~(hist.approvedAt > s.expiresAt)

\* the sessions stored under the normalized form of a code
StoredUnder(code) == {s \in sessionStore : s.roomCode = normalizeRoomCode(code)}

\* C21: isSessionValid(code) returns true exactly when a session is stored
\* under the normalized code and the time is not past its expiresAt, which is
\* its creation time plus 60 minutes; when it returns false no session is left
\* under the code, and from then on it returns false for that code until
\* createSession stores one again.
C21_ValidUntilExpiresAt ==
  /\ [](event.kind = "isSessionValid" =>
          LET code == event.msg.payload.code
          IN /\ event.msg.payload.result =
                  (\E s \in StoredUnder(code) : now <= s.createdAt + ROOM_CODE_EXPIRY_MS)
             /\ ~event.msg.payload.result => StoredUnder(code) = {})
  /\ [][\A code \in SessionCodes :
          StoredUnder(code) = {} /\ StoredUnder(code)' # {}
            => /\ event'.kind = "createSession"
               /\ normalizeRoomCode(event'.msg.payload.code) = normalizeRoomCode(code)]_vars
  /\ [](\A s \in sessionStore : s.expiresAt = s.createdAt + ROOM_CODE_EXPIRY_MS)

\* a lookup with the code as typed, at the very instant the session expires,
\* returned true
C21_Witness ==
  /\ event.kind = "isSessionValid"
  /\ event.msg.payload.result
  /\ event.msg.payload.code = <<"a", "b", "3", "d", "e", "f", "7", "h">>
  /\ \E s \in StoredUnder(event.msg.payload.code) : now = s.expiresAt

AmbiguousGlyphs == {"0", "O", "1", "I", "L"}

\* C22: every room code the host issues has 8 symbols before formatting, each
\* of an alphabet of exactly 32 distinct symbols with none of the glyphs 0, O,
\* 1, I, L, and isValidRoomCodeFormat accepts it.
C22_IssuedCodeWellFormed ==
  event.kind = "generateSecureRoomCode" =>
    LET code == event.msg.payload.code
        symbols == removeDashes(code)
        alphabet == {ROOM_CODE_ALPHABET[k] : k \in 1 .. Len(ROOM_CODE_ALPHABET)}
    IN /\ Len(symbols) = 8
       /\ \A i \in 1 .. Len(symbols) : symbols[i] \in alphabet
       /\ Cardinality(alphabet) = 32
       /\ alphabet \cap AmbiguousGlyphs = {}
       /\ isValidRoomCodeFormat(code)

\* C23: for every spelling c of a code, normalizeRoomCode(formatRoomCode(c)) =
\* normalizeRoomCode(c) and normalizeRoomCode(normalizeRoomCode(c)) =
\* normalizeRoomCode(c); a spelling that differs from the issued code only in
\* dashes and letter case finds the issued code's session and leads to the
\* peer id the host registered.
C23_ComparedOnNormalizedForm ==
  event.kind = "enterCode" =>
    LET c == event.msg.payload.code
    IN /\ normalizeRoomCode(formatRoomCode(c)) = normalizeRoomCode(c)
       /\ normalizeRoomCode(normalizeRoomCode(c)) = normalizeRoomCode(c)
       /\ event.msg.payload.result
       /\ StoredUnder(c) = sessionStore
       /\ event.msg.payload.hostPeerId = event.msg.payload.fullPeerId

\* a full code typed in lower case with dashes in unusual places
C23_Witness ==
  /\ event.kind = "enterCode"
  /\ event.msg.payload.code = <<"-", "a", "b", "-", "3", "d", "E", "F", "7", "H">>
  /\ event.msg.payload.issued = <<"A", "B", "3", "D", "-", "E", "F", "7", "H">>
  /\ event.msg.payload.result

\* the chunks of `file` with the indexes of S, in ascending index order
RECURSIVE InIndexOrder(_, _)
InIndexOrder(file, S) ==
  IF S = {} THEN <<>>
  ELSE LET last == CHOOSE k \in S : \A x \in S : x <= k
       IN Append(InIndexOrder(file, S \ {last}), ChunkData(file, last))

\* C24: when every file_chunk of a file has been processed (its checksum
\* verification has completed) before its file_complete is handled, the Blob
\* handed to onFileReceived holds the chunks that arrived in ascending chunkIndex
\* order, once each: whatever the order they arrived in and however often a
\* chunk arrived.
C24_AssembledByIndex ==
  [][(/\ event'.kind = "message"
      /\ event'.msg.type = "file_complete"
      /\ rx.verifying = <<>>
      /\ Len(rx'.delivered) = Len(rx.delivered) + 1)
       => rx'.delivered[Len(rx'.delivered)].blob =
            InIndexOrder(ChunkedFile, {hist.chunksIn[k] : k \in DOMAIN hist.chunksIn})]_vars

\* a complete file was delivered whose last chunk arrived first and whose first
\* chunk arrived twice
C24_Witness ==
  /\ event.kind = "message"
  /\ event.msg.type = "file_complete"
  /\ Len(hist.chunksIn) = MaxArrivals
  /\ hist.chunksIn[1] = totalChunksOf(ChunkedFile.size) - 1
  /\ hist.chunksIn[2] = 0
  /\ hist.chunksIn[Len(hist.chunksIn)] = 0
  /\ Len(rx.delivered) = 1
  /\ rx.delivered[1].blob = FileContent(ChunkedFile)

\* the file is empty, larger than the per-file cap, or has a blocked extension
Unfit(file) ==
  \/ file.gib = 0 /\ file.size = 0
  \/ Greater(sizeOf(file), MAX_FILE_SIZE)
  \/ isBlockedExtension(file.name)

ChannelClosed(h) ==
  /\ h.connectionRef = NULL
  /\ h.connectionInfo.state \in {"disconnected", "error"}

\* C26 (as claimed): once the channel has closed and the callbacks that were
\* already under way have run (no checksum verification pending on the receiving
\* side, sendFiles returned on the sending side), no batch is left
\* 'transferring' and isReceiving and isSending are false.
C26_CloseAbortsTransfer ==
  /\ (ChannelClosed(host) /\ rx.verifying = <<>>)
       => ~rx.isReceiving /\ rx.batchProgress.status # "transferring"
  /\ (ChannelClosed(client) /\ tx.pc = "idle")
       => ~tx.isSending /\ tx.batchProgress.status # "transferring"

\* the host instance has disconnected: disconnect() reset it to 'idle' without
\* a peer, or a disconnect message or a close left it 'disconnected'
HostDisconnected ==
  /\ hasInitialized
  /\ ~host.isConnectingRef
  /\ host.peerRef = NULL
  /\ host.connectionInfo.state \in {"idle", "disconnected"}

\* C27 (as claimed): the session registry of the hosting device never holds
\* more than one session, and it holds none once the host has disconnected.
C27_OneSessionPerHost ==
  /\ Cardinality(sessionStore) <= 1
  /\ HostDisconnected => sessionStore = {}

\* the host is awaiting approval for, or connected to, a peer other than q
EngagedWithOther(q) ==
  \/ /\ host.connectionInfo.state = "awaiting_approval"
     /\ pendingApproval.id # 0
     /\ pendingApproval.peerId # q
  \/ /\ host.connectionInfo.state = "connected"
     /\ host.connectionInfo.remotePeerId # q

\* C28 (as claimed): a connection_request of a second peer that arrives while
\* the host awaits approval for, or is connected to, another peer leaves the
\* pending approval and the host's connection state as they are.
C28_SecondPeerNotAccepted ==
  [][(/\ event'.kind = "message"
      /\ event'.msg.type = "connection_request"
      /\ EngagedWithOther(event'.msg.payload.peerId))
       => /\ pendingApproval' = pendingApproval
          /\ host'.connectionInfo.state = host.connectionInfo.state]_vars

\* C29 (as claimed): sanitizeFileName returns a non-empty name of at most 255
\* characters without path separator, '..', control character or any of
\* < > : " | ? *, and a name it had to shorten keeps its extension.
C29_SanitizedNameIsSafe ==
  event.kind = "sanitizeFileName" =>
    LET name == event.msg.payload.code
        result == event.msg.payload.result
        ext == lastIndexOfDot(stripped(name))
    IN /\ result # <<>>
       /\ Len(result) <= MAX_NAME_LENGTH
       /\ \A i \in 1 .. Len(result) :
            result[i] \notin PathSeparators \cup SpecialCharacters \cup ControlCharacters
       /\ \A i \in 1 .. (Len(result) - 1) : ~(result[i] = "." /\ result[i + 1] = ".")
       /\ (Len(stripped(name)) > MAX_NAME_LENGTH /\ ext > 0)
            => LET extension == slice(stripped(name), ext, Len(stripped(name)))
               IN /\ Len(result) >= Len(extension)
                  /\ slice(result, Len(result) - Len(extension), Len(result)) = extension

HandshakeReplies ==
  {"connection_approved", "connection_denied", "pin_required", "pin_verified", "pin_invalid"}

\* C30 (as claimed): a handshake reply goes out on the connection on which the
\* message it answers arrived: the reply of a message handler on the connection
\* of that message, the reply to a decision of the user on the connection of
\* the peer whose request was decided.
C30_ReplyOnRequestersConnection ==
  [][(\E k \in DOMAIN sent' : sent'[k].type \in HandshakeReplies)
       => /\ event'.kind = "message" => host.connectionPeer = event'.on
          /\ event'.kind \in {"approve", "deny"} => host.connectionPeer = pendingApproval.peerId]_vars

\* the bytes a delivered blob holds
RECURSIVE BlobBytes(_)
BlobBytes(blob) ==
  IF blob = <<>> THEN 0 ELSE byteLength(Head(blob)) + BlobBytes(Tail(blob))

\* C31 (as claimed): a file is marked 'completed' and handed to onFileReceived
\* only if the bytes buffered for it equal the size, and its chunks the
\* totalChunks, that its file_metadata declared.
C31_CompletedOnlyWhenWhole ==
  \A d \in Delivered :
    /\ BlobBytes(d.blob) = d.metadata.size
    /\ Len(d.blob) = d.metadata.totalChunks

\* C32 (as claimed): at most one sendFiles loop emits at any time; the messages
\* of two batches are never interleaved on the channel, so no invocation of
\* sendFiles hands a message to the channel after a later invocation has.
C32_OneLoopEmits == ~hist.interleaved

\* C33 (as claimed): every connection_request presented to the host user gets
\* its own approval window: the callback that presents a request (invokes the
\* approval provider) does not itself deny it; a denial comes from the Deny
\* button or from the end of the request's own countdown.
C33_OwnApprovalWindow ==
  (Received("connection_request") /\ hist.invoked) => "connection_denied" \notin SentTypes

\* C34 (as claimed): a peer's rate-limit entry is cleared only when the peer is
\* authenticated, that is when its connection reaches 'connected': after an
\* approval that leaves the host short of 'connected' (a PIN is still to be
\* verified) the approved peer still has its entry.
C34_ClearedOnlyWhenAuthenticated ==
  (event.kind = "approve" /\ host.connectionInfo.state # "connected")
    => \A p \in hist.approved : rateLimitStore[p].present

\* C35 (as claimed): whenever a sendFiles call that emitted batch_start has
\* returned and isSending is false again, BatchProgress.status is completed,
\* failed or cancelled, never still 'transferring'.
C35_ReturnedBatchIsSettled ==
  (/\ tx.pc = "idle"
   /\ ~tx.isSending
   /\ hist.emitted # <<>>
   /\ hist.emitted[1].type = "batch_start")
    => tx.batchProgress.status \in {"completed", "failed", "cancelled"}

\* C36 (as claimed): whenever the host is 'idle' with a non-null roomCode (the
\* room is shown as ready), the peer that listens under that code is alive,
\* not destroyed.
C36_ShownRoomIsListening ==
  (host.connectionInfo.state = "idle" /\ host.connectionInfo.roomCode # NULL)
    => host.peerRef # NULL

\* C37 (as claimed): the host's heartbeat timer runs only while its state is
\* 'connected': in every other state no timer is set and no heartbeat message
\* is sent.
C37_HeartbeatOnlyWhileConnected ==
  /\ host.heartbeatIntervalRef # NULL => host.connectionInfo.state = "connected"
  /\ (event.kind = "heartbeat" /\ sent # <<>>) => host.connectionInfo.state = "connected"

\* the quotient p lies between 0 and 100 percent (NaN and Infinity do not)
WithinHundred(p) == p.of > 0 /\ 0 <= p.bytes /\ p.bytes <= p.of

\* C38 (as claimed): on the sender and on the receiver, throughout every batch
\* 0 <= bytesTransferred <= totalBytes and 0 <= overallPercentage <= 100.
C38_ProgressWithinBounds ==
  \A u \in {tx, rx} :
    /\ 0 <= u.batchProgress.bytesTransferred
    /\ u.batchProgress.bytesTransferred <= u.batchProgress.totalBytes
    /\ WithinHundred(u.batchProgress.overallPercentage)

\* the delay the claim gives for reconnect attempt n
Backoff == <<1000, 2000, 4000, 8000, 10000>>

\* C39: a 'disconnected' event of the live signalling peer schedules reconnect
\* attempt n after min(1000 * 2^(n-1), 10000) ms; at most 5 reconnect attempts
\* are made; the disconnect after the 5th attempt sets the state to 'error'
\* and schedules no reconnect.
C39_BoundedBackoffThenError ==
  [][/\ hist'.reconnects <= 5
     /\ event'.kind = "signalDisconnected" =>
          LET n == host.initializePeer.reconnectAttempts + 1
          IN IF n <= 5
               THEN /\ host'.initializePeer.timer =
                         [attempt |-> n, setAt |-> now, delay |-> Backoff[n]]
                    /\ host'.connectionInfo.state = host.connectionInfo.state
               ELSE /\ host'.initializePeer.timer = NoTimer
                    /\ host'.connectionInfo.state = "error"
     /\ (event'.kind = "reconnectTimer" /\ hist'.reconnects > hist.reconnects) =>
          now' >= host.initializePeer.timer.setAt + Backoff[host.initializePeer.timer.attempt]]_vars

C39_Witness ==
  /\ event.kind = "signalDisconnected"
  /\ hist.reconnects = 5
  /\ host.initializePeer.reconnectAttempts = 5
  /\ host.initializePeer.timer = NoTimer
  /\ host.connectionInfo.state = "error"

\* C40: the speed tracker never holds more than 5 samples; a call takes a new
\* sample only when at least 500 ms have passed since the previous one (or since
\* the reset); the new sample goes to the end and, of six, the oldest is
\* dropped; the call reports the arithmetic mean of the held samples, 0 when it
\* holds none; and a batch starts with no samples.
C40_SpeedIsSlidingMean ==
  [][/\ Len(tx'.speedSamplesRef) <= 5
     /\ event'.kind = "trackerReset" => tx'.speedSamplesRef = <<>>
     /\ event'.kind = "calculateSpeed" =>
          LET old == tx.speedSamplesRef
              new == tx'.speedSamplesRef
              taken == tx'.lastSpeedUpdateRef # tx.lastSpeedUpdateRef
              result == event'.msg.payload.result
          IN /\ taken <=> now' - tx.lastSpeedUpdateRef >= 500
             /\ ~taken => new = old
             /\ taken => /\ new # <<>>
                         /\ SubSeq(new, 1, Len(new) - 1) =
                              (IF Len(old) = 5 THEN Tail(old) ELSE old)
             /\ new = <<>> => result = Zero
             /\ new # <<>> => Quotient(result.num * Len(new), result.den) = reduceSum(new)]_vars

C40_Witness ==
  /\ event.kind = "calculateSpeed"
  /\ hist.speedCalls = 6
  /\ hist.speedTotal = 1800
  /\ now = 3000
  /\ tx.speedSamplesRef = [k \in 1 .. 5 |-> Quotient(600, 1)]
  /\ event.msg.payload.result = Quotient(600, 1)

====
